---- MODULE Spec2Model ----
(***************************************************************************)
(* State-machine model of the finance bot: the per-user session bag        *)
(* (FinanceBot.user_data), the per-(user, chat) conversation position      *)
(* (telebot StateMemoryStorage), the category cache file, the ledger       *)
(* worksheet, and one action per registered handler.                       *)
(*                                                                         *)
(* Texts are sequences of atoms.  A one-character atom is that character;  *)
(* a longer atom stands for a run of letters that holds no separator,      *)
(* digit, sign, comma or dot.  Cyrillic literals of the source are written *)
(* in Latin transliteration (rashody, dohody, Otmena, ...).                *)
(***************************************************************************)
EXTENDS Integers, Sequences, FiniteSets, TLC

VARIABLES
    user_data,  \* FinanceBot.user_data: user id -> dict of session fields
    state,      \* StateMemoryStorage: (user id, chat id) -> state name or None
    sheet,      \* worksheet 'Tranzakcii': sequence of rows
    cache,      \* the cache file categories.json: Missing or a document
    now,        \* the system clock, in hours
    event,      \* the last step: handler run, user, chat, the position of the
                \* pair before it and the answer given
    dialog,     \* per user: the inputs of the unbroken dialog in progress
    handled,    \* the number of inbound events handled so far
    probe       \* a call made on a component directly: its inputs and result

vars == <<user_data, state, sheet, cache, now, event, dialog, handled, probe>>

----------------------------------------------------------------------------
(* Bounds of the model *)

MaxTicks == 2
MaxDataRows == 1
MaxEvents == 5

----------------------------------------------------------------------------
(* Identities *)

\* user 1 is on the allowlist, user 2 is not
ALLOWED_USER_IDS == {1}
Users == {1, 2}
Chats == {1, 2}

is_user_allowed(user_id) == user_id \in ALLOWED_USER_IDS

check_access(user_id) == user_id # 0 /\ is_user_allowed(user_id)

----------------------------------------------------------------------------
(* Literals of the source *)

None == "None"
main_menu == "MenuStates:main_menu"
choosing_category == "TransactionStates:choosing_category"
entering_amount == "TransactionStates:entering_amount"
entering_description == "TransactionStates:entering_description"
confirming == "TransactionStates:confirming"

Positions == {main_menu, choosing_category, entering_amount,
              entering_description, confirming}

RASHODY == "rashody"
DOHODY == "dohody"
Kinds == {RASHODY, DOHODY}

\* str.lower on the words that carry a capital
Lower(word) ==
    CASE word = "Rashody" -> RASHODY
      [] word = "Dohody" -> DOHODY
      [] OTHER -> word

CancelText == <<"Otmena">>
SkipText == <<"Propustit">>
NoDescription == <<"Bez opisaniya">>

Digits == {"0", "1", "2", "3", "4", "5", "6", "7", "8", "9"}

DigitVal(ch) ==
    CASE ch = "0" -> 0 [] ch = "1" -> 1 [] ch = "2" -> 2 [] ch = "3" -> 3
      [] ch = "4" -> 4 [] ch = "5" -> 5 [] ch = "6" -> 6 [] ch = "7" -> 7
      [] ch = "8" -> 8 [] ch = "9" -> 9

DigitCh(n) ==
    CASE n = 0 -> "0" [] n = 1 -> "1" [] n = 2 -> "2" [] n = 3 -> "3"
      [] n = 4 -> "4" [] n = 5 -> "5" [] n = 6 -> "6" [] n = 7 -> "7"
      [] n = 8 -> "8" [] n = 9 -> "9"

----------------------------------------------------------------------------
(* Python string operations on atom sequences *)

\* str.startswith(prefix)
StartsWith(s, prefix) ==
    /\ Len(s) >= Len(prefix)
    /\ SubSeq(s, 1, Len(prefix)) = prefix

\* index of the first occurrence of atom ch in s at or after position i; 0 if none
RECURSIVE Find(_, _, _)
Find(s, ch, i) ==
    IF i > Len(s) THEN 0
    ELSE IF s[i] = ch THEN i
    ELSE Find(s, ch, i + 1)

\* str.split(sep, maxsplit): maxsplit < 0 means no limit
RECURSIVE Split(_, _, _)
Split(s, sep, maxsplit) ==
    LET i == Find(s, sep, 1) IN
    IF maxsplit = 0 \/ i = 0 THEN <<s>>
    ELSE <<SubSeq(s, 1, i - 1)>>
         \o Split(SubSeq(s, i + 1, Len(s)), sep, maxsplit - 1)

\* str.replace(old, new) for one-atom old and new
Replace(s, old, new) == [i \in 1..Len(s) |-> IF s[i] = old THEN new ELSE s[i]]

\* str.strip(): blanks and no-break spaces are whitespace
Whitespace == {" ", "nbsp"}

RECURSIVE Strip(_)
Strip(s) ==
    IF s = <<>> THEN s
    ELSE IF Head(s) \in Whitespace THEN Strip(Tail(s))
    ELSE IF s[Len(s)] \in Whitespace THEN Strip(SubSeq(s, 1, Len(s) - 1))
    ELSE s

IsDigits(s) == \A i \in 1..Len(s) : s[i] \in Digits

RECURSIVE DigitsValue(_)
DigitsValue(s) ==
    IF s = <<>> THEN 0
    ELSE 10 * DigitsValue(SubSeq(s, 1, Len(s) - 1)) + DigitVal(s[Len(s)])

----------------------------------------------------------------------------
(* Python float: a value is finite (sign, mantissa m, k fraction digits,
   i.e. m / 10^k with no trailing fraction zero), an infinity or a NaN *)

RECURSIVE Normalize(_, _, _)
Normalize(neg, m, k) ==
    IF k > 0 /\ m % 10 = 0 THEN Normalize(neg, m \div 10, k - 1)
    ELSE [cls |-> "finite", neg |-> neg, m |-> m, k |-> k]

Infinity(neg) == [cls |-> "inf", neg |-> neg, m |-> 0, k |-> 0]
NaN == [cls |-> "nan", neg |-> FALSE, m |-> 0, k |-> 0]
ValueError == [cls |-> "ValueError", neg |-> FALSE, m |-> 0, k |-> 0]

\* float(text): the float denoted, or ValueError.  Texts are over the
\* alphabet of digits, sign, dot, blank and letter runs (no exponent form).
float(text) ==
    LET t == Strip(text)
        signed == t # <<>> /\ t[1] \in {"+", "-"}
        neg == signed /\ t[1] = "-"
        body == IF signed THEN Tail(t) ELSE t
        dot == Find(body, ".", 1)
        ip == IF dot = 0 THEN body ELSE SubSeq(body, 1, dot - 1)
        fp == IF dot = 0 THEN <<>> ELSE SubSeq(body, dot + 1, Len(body))
    IN  IF body \in {<<"inf">>, <<"infinity">>} THEN Infinity(neg)
        ELSE IF body = <<"nan">> THEN NaN
        ELSE IF IsDigits(ip) /\ IsDigits(fp) /\ Len(ip) + Len(fp) >= 1
             THEN Normalize(neg, DigitsValue(ip \o fp), Len(fp))
        ELSE ValueError

\* the decimal digits of a natural number
RECURSIVE NatDigits(_)
NatDigits(n) ==
    IF n < 10 THEN <<DigitCh(n)>>
    ELSE NatDigits(n \div 10) \o <<DigitCh(n % 10)>>

RECURSIVE Pow10(_)
Pow10(k) == IF k = 0 THEN 1 ELSE 10 * Pow10(k - 1)

RECURSIVE ZeroPad(_, _)
ZeroPad(s, width) == IF Len(s) >= width THEN s ELSE ZeroPad(<<"0">> \o s, width)

\* the text of a number written into a cell, as get_all_values returns it
CellText(x) ==
    CASE x.cls = "inf" -> (IF x.neg THEN <<"-">> ELSE <<>>) \o <<"inf">>
      [] x.cls = "nan" -> <<"nan">>
      [] OTHER ->
            (IF x.neg THEN <<"-">> ELSE <<>>)
            \o NatDigits(x.m \div Pow10(x.k))
            \o (IF x.k = 0 THEN <<>>
                ELSE <<".">> \o ZeroPad(NatDigits(x.m % Pow10(x.k)), x.k))

\* variant: the strict comparison x < 0, which lets zero through
LessThanZero(x) ==
    CASE x.cls = "finite" -> x.neg /\ x.m # 0
      [] x.cls = "inf" -> x.neg
      [] OTHER -> FALSE

\* x <= 0 on floats (every comparison with NaN is false)
LeqZero(x) ==
    CASE x.cls = "finite" -> x.neg \/ x.m = 0
      [] x.cls = "inf" -> x.neg
      [] OTHER -> FALSE

IsFinitePositive(x) == x.cls = "finite" /\ ~x.neg /\ x.m > 0

----------------------------------------------------------------------------
(* Clock and date formatting.  The clock counts hours from 00:00 of
   01.11.2026; the model stays within that month. *)

HoursPerDay == 24

\* the clock advances by a day, or an hour less or more
TickSteps == {HoursPerDay - 1, HoursPerDay, HoursPerDay + 1}

\* the clock values of the model
Hours == 0..(MaxTicks * (HoursPerDay + 1))

TwoDigits(n) == <<DigitCh(n \div 10), DigitCh(n % 10)>>

\* datetime.now().strftime("%d.%m.%Y")
strftime(t) ==
    TwoDigits(1 + t \div HoursPerDay) \o <<".", "1", "1", ".", "2", "0", "2", "6">>

\* datetime.now().isoformat(): date part, "T", hour of the day
isoformat(t) ==
    <<"2", "0", "2", "6", "-", "1", "1", "-">> \o TwoDigits(1 + t \div HoursPerDay)
    \o <<"T">> \o TwoDigits(t % HoursPerDay)

\* datetime.fromisoformat(text): hours since the origin, or -1 on ValueError
fromisoformat(text) ==
    IF /\ Len(text) = 13
       /\ SubSeq(text, 1, 8) = <<"2", "0", "2", "6", "-", "1", "1", "-">>
       /\ text[9] \in Digits /\ text[10] \in Digits
       /\ text[11] = "T"
       /\ text[12] \in Digits /\ text[13] \in Digits
    THEN LET day == 10 * DigitVal(text[9]) + DigitVal(text[10])
             hour == 10 * DigitVal(text[12]) + DigitVal(text[13])
         IN  IF day \in 1..30 /\ hour \in 0..(HoursPerDay - 1)
             THEN (day - 1) * HoursPerDay + hour
             ELSE -1
    ELSE -1

----------------------------------------------------------------------------
(* Python dicts as functions with a finite domain *)

EmptyDict == <<>>

\* d[key] = value
DictSet(d, key, value) ==
    [k \in DOMAIN d \cup {key} |-> IF k = key THEN value ELSE d[k]]

HasKeys(d, keys) == keys \subseteq DOMAIN d

----------------------------------------------------------------------------
(* The summary worksheet 'Svodka' as get_all_values returns it: the rows
   after the sentinel 'Itogo' carry expense categories in column B and
   income categories in column H. *)

Blank == <<>>

SvodkaRow(b, h) == <<Blank, b, Blank, Blank, Blank, Blank, Blank, h>>

Svodka ==
    << SvodkaRow(<<"Itogo">>, <<"Itogo">>),
       SvodkaRow(<<"Predpolagaemye">>, <<"Fakticheskie">>),
       SvodkaRow(<<" ", "Eda">>, <<"Zarplata", "nbsp">>),
       SvodkaRow(Blank, Blank) >>

ServiceLabels == {<<"Itogo">>, <<"Predpolagaemye">>, <<"Fakticheskie">>}

\* index of the first row whose column B is the sentinel, or 0
RECURSIVE FindItogo(_, _)
FindItogo(data, i) ==
    IF i > Len(data) THEN 0
    ELSE IF Len(data[i]) > 1 /\ data[i][2] = <<"Itogo">> THEN i
    ELSE FindItogo(data, i + 1)

RECURSIVE CollectCategories(_, _, _)
CollectCategories(data, i, column) ==
    IF i > Len(data) THEN <<>>
    ELSE LET row == data[i]
             category == IF Len(row) >= column THEN Strip(row[column]) ELSE Blank
             kept == IF category # Blank /\ category \notin ServiceLabels
                     THEN <<Strip(Replace(category, "nbsp", " "))>>
                     ELSE <<>>
         IN  kept \o CollectCategories(data, i + 1, column)

\* what _fetch_categories_from_sheets computes from the rows read, per kind
FetchedCategories ==
    [category_type \in Kinds |->
        LET data == Svodka
            sentinel == FindItogo(data, 1)
        IN  IF data = <<>> \/ sentinel = 0 THEN <<>>
            ELSE IF category_type = RASHODY THEN CollectCategories(data, sentinel + 1, 2)
            ELSE CollectCategories(data, sentinel + 1, 8)]

\* GoogleSheetsClient._fetch_categories_from_sheets; ok = FALSE is any
\* exception of the remote read, which the method turns into []
_fetch_categories_from_sheets(category_type, ok) ==
    IF ~ok THEN <<>>
    ELSE IF category_type \in Kinds THEN FetchedCategories[category_type]
    ELSE <<>>

----------------------------------------------------------------------------
(* The JSON text of the cache file.  json.dump writes the text, json.load
   reads it back; the layout whitespace of indent=2 lies between tokens and
   is left out.  Dict keys are single atoms. *)

\* the variant of Escape that writes a string body as it is
Verbatim(s) == s

\* a string body with quote and backslash escaped
RECURSIVE Escape(_)
Escape(s) ==
    IF s = <<>> THEN <<>>
    ELSE (IF Head(s) \in {"\"", "\\"} THEN <<"\\", Head(s)>> ELSE <<Head(s)>>)
         \o Escape(Tail(s))

JsonString(s) == <<"\"">> \o Escape(s) \o <<"\"">>

RECURSIVE JoinStrings(_, _)
JoinStrings(names, i) ==
    IF i > Len(names) THEN <<>>
    ELSE (IF i > 1 THEN <<",">> ELSE <<>>) \o JsonString(names[i])
         \o JoinStrings(names, i + 1)

JsonArray(names) == <<"[">> \o JoinStrings(names, 1) \o <<"]">>

\* the keys of a dict, in the order they are written
RECURSIVE KeySeq(_)
KeySeq(keys) ==
    IF keys = {} THEN <<>>
    ELSE LET k == CHOOSE x \in keys : TRUE IN <<k>> \o KeySeq(keys \ {k})

RECURSIVE JoinPairs(_, _, _)
JoinPairs(d, keys, i) ==
    IF i > Len(keys) THEN <<>>
    ELSE (IF i > 1 THEN <<",">> ELSE <<>>)
         \o JsonString(<<keys[i]>>) \o <<":">> \o JsonArray(d[keys[i]])
         \o JoinPairs(d, keys, i + 1)

JsonDict(d) == <<"{">> \o JoinPairs(d, KeySeq(DOMAIN d), 1) \o <<"}">>

\* json.dump({'timestamp': ..., 'categories': ...})
json_dump(cache_data) ==
    <<"{">> \o JsonString(<<"timestamp">>) \o <<":">>
    \o JsonString(cache_data.timestamp) \o <<",">>
    \o JsonString(<<"categories">>) \o <<":">>
    \o JsonDict(cache_data.categories) \o <<"}">>

\* a parse that failed (json.JSONDecodeError)
ParseError == [ok |-> FALSE, value |-> <<>>, next |-> 0]

Parsed(value, next) == [ok |-> TRUE, value |-> value, next |-> next]

RECURSIVE ScanString(_, _, _)
ScanString(text, j, acc) ==
    IF j > Len(text) THEN ParseError
    ELSE IF text[j] = "\"" THEN Parsed(acc, j + 1)
    ELSE IF text[j] = "\\"
         THEN IF j + 1 > Len(text) THEN ParseError
              ELSE ScanString(text, j + 2, Append(acc, text[j + 1]))
    ELSE ScanString(text, j + 1, Append(acc, text[j]))

ParseString(text, i) ==
    IF i <= Len(text) /\ text[i] = "\"" THEN ScanString(text, i + 1, <<>>)
    ELSE ParseError

RECURSIVE ParseArrayItems(_, _, _)
ParseArrayItems(text, i, acc) ==
    LET item == ParseString(text, i) IN
    IF ~item.ok \/ item.next > Len(text) THEN ParseError
    ELSE IF text[item.next] = ","
         THEN ParseArrayItems(text, item.next + 1, Append(acc, item.value))
    ELSE IF text[item.next] = "]"
         THEN Parsed(Append(acc, item.value), item.next + 1)
    ELSE ParseError

ParseArray(text, i) ==
    IF i + 1 <= Len(text) /\ text[i] = "["
    THEN IF text[i + 1] = "]" THEN Parsed(<<>>, i + 2)
         ELSE ParseArrayItems(text, i + 1, <<>>)
    ELSE ParseError

\* a value of the cache document: a string, or an object of arrays
RECURSIVE ParseObjectItems(_, _, _)
ParseValue(text, i) ==
    IF i > Len(text) THEN ParseError
    ELSE IF text[i] = "\"" THEN ParseString(text, i)
    ELSE IF text[i] = "[" THEN ParseArray(text, i)
    ELSE IF text[i] = "{"
         THEN IF i + 1 <= Len(text) /\ text[i + 1] = "}" THEN Parsed(<<>>, i + 2)
              ELSE ParseObjectItems(text, i + 1, <<>>)
    ELSE ParseError

\* variant: an object cut off after one of its values is taken as complete
ParseObjectItemsCutOff(text, i, acc) ==
    LET key == ParseString(text, i) IN
    IF ~key.ok \/ Len(key.value) # 1 \/ key.next > Len(text) THEN ParseError
    ELSE IF text[key.next] # ":" THEN ParseError
    ELSE
    LET item == ParseValue(text, key.next + 1) IN
    IF ~item.ok THEN ParseError
    ELSE
    LET acc2 == (key.value[1] :> item.value) @@ acc IN
    IF item.next > Len(text) THEN Parsed(acc2, Len(text) + 1)
    ELSE IF text[item.next] = "," THEN ParseObjectItems(text, item.next + 1, acc2)
    ELSE IF text[item.next] = "}" THEN Parsed(acc2, item.next + 1)
    ELSE ParseError

\* a key that occurs twice keeps its last value
ParseObjectItems(text, i, acc) ==
    LET key == ParseString(text, i) IN
    IF ~key.ok \/ Len(key.value) # 1 \/ key.next > Len(text) THEN ParseError
    ELSE IF text[key.next] # ":" THEN ParseError
    ELSE
    LET item == ParseValue(text, key.next + 1) IN
    IF ~item.ok \/ item.next > Len(text) THEN ParseError
    ELSE
    LET acc2 == (key.value[1] :> item.value) @@ acc IN
    IF text[item.next] = "," THEN ParseObjectItems(text, item.next + 1, acc2)
    ELSE IF text[item.next] = "}" THEN Parsed(acc2, item.next + 1)
    ELSE ParseError

\* json.load: the document, or the failure to decode the text
json_load(text) ==
    LET doc == ParseValue(text, 1) IN
    IF doc.ok /\ doc.next = Len(text) + 1 /\ text[1] = "{" THEN doc
    ELSE ParseError

\* dict.get(key, default)
Get(d, key, default) == IF key \in DOMAIN d THEN d[key] ELSE default

----------------------------------------------------------------------------
(* CacheManager: the cache file is Missing or holds a JSON text.  A file is
   kept with what json.load returns for its text (loaded), so that a read
   of the file does not decode the same text again. *)

FileWith(text) == [exists |-> TRUE, text |-> text, loaded |-> json_load(text)]

Missing == [exists |-> FALSE, text |-> Blank, loaded |-> ParseError]
cache_expiry_hours == 24

\* the file after json.dump of the document
CacheDocument(t, categories) ==
    FileWith(json_dump([timestamp |-> isoformat(t), categories |-> categories]))

\* the variant of _is_cache_expired that expires only a file without a
\* timestamp
_is_cache_expired_unstamped(timestamp, t) == timestamp = Blank

\* CacheManager._is_cache_expired
_is_cache_expired(timestamp, t) ==
    IF timestamp = Blank THEN TRUE
    ELSE LET cache_time == fromisoformat(timestamp) IN
         IF cache_time < 0 THEN TRUE
         ELSE t > cache_time + cache_expiry_hours

\* CacheManager.load_categories
load_categories(file, t) ==
    IF ~file.exists THEN EmptyDict
    ELSE LET cache_data == file.loaded IN
         IF ~cache_data.ok THEN EmptyDict
         ELSE IF _is_cache_expired(Get(cache_data.value, "timestamp", Blank), t)
         THEN EmptyDict
         ELSE Get(cache_data.value, "categories", EmptyDict)

\* CacheManager.save_categories: the file after the write
save_categories(categories, t) == CacheDocument(t, categories)

\* CacheManager.is_cache_valid
is_cache_valid(file, t) ==
    IF ~file.exists THEN FALSE
    ELSE LET cache_data == file.loaded IN
         IF ~cache_data.ok THEN FALSE
         ELSE ~_is_cache_expired(Get(cache_data.value, "timestamp", Blank), t)

\* CacheManager.clear_cache: the file after it
clear_cache(file) == Missing

\* sum(len(cats) for cats in categories.values())
RECURSIVE TotalCategories(_, _)
TotalCategories(categories, keys) ==
    IF keys = {} THEN 0
    ELSE LET k == CHOOSE x \in keys : TRUE IN
         Len(categories[k]) + TotalCategories(categories, keys \ {k})

\* variant: a failure inside get_cache_info is reported as a missing cache
InfoNotFound(reason) == [exists |-> FALSE, message |-> "not_found"]

\* the descriptor of the except branch of get_cache_info
InfoError(reason) == [exists |-> FALSE, error |-> reason]

\* CacheManager.get_cache_info
get_cache_info(file, t) ==
    IF ~file.exists THEN [exists |-> FALSE, message |-> "not_found"]
    ELSE LET cache_data == file.loaded IN
         IF ~cache_data.ok THEN InfoError("decode")
         ELSE
         LET timestamp == Get(cache_data.value, "timestamp", Blank)
             categories == Get(cache_data.value, "categories", EmptyDict)
             total_categories == TotalCategories(categories, DOMAIN categories)
         IN  IF timestamp # Blank
             THEN LET cache_time == fromisoformat(timestamp) IN
                  IF cache_time < 0 THEN InfoError("isoformat")
                  ELSE [exists |-> TRUE,
                        timestamp |-> timestamp,
                        age_hours |-> t - cache_time,
                        total_categories |-> total_categories,
                        category_types |-> KeySeq(DOMAIN categories),
                        is_expired |-> _is_cache_expired(timestamp, t)]
             ELSE [exists |-> TRUE, message |-> "bad_format",
                   total_categories |-> total_categories]

\* the file _update_cache_with_categories leaves, for every clock value and
\* every outcome of its two remote reads
UpdatedCache ==
    [t \in Hours, okE \in BOOLEAN, okI \in BOOLEAN |->
        save_categories(
            (RASHODY :> _fetch_categories_from_sheets(RASHODY, okE))
            @@ (DOHODY :> _fetch_categories_from_sheets(DOHODY, okI)),
            t)]

\* GoogleSheetsClient._update_cache_with_categories: the file after it
_update_cache_with_categories(t, okE, okI) == UpdatedCache[t, okE, okI]

\* GoogleSheetsClient.get_categories: the list returned, the file after the
\* call and the remote reads made; ok, okE, okI are the outcomes of the
\* three remote reads of a miss
get_categories(file, t, category_type, ok, okE, okI) ==
    LET cached_categories == load_categories(file, t) IN
    IF cached_categories # EmptyDict /\ category_type \in DOMAIN cached_categories
    THEN [categories |-> cached_categories[category_type],
          file |-> file,
          calls |-> <<>>]
    ELSE [categories |-> _fetch_categories_from_sheets(category_type, ok),
          file |-> _update_cache_with_categories(t, okE, okI),
          calls |-> << [op |-> "fetch_categories", kind |-> category_type, ok |-> ok],
                       [op |-> "fetch_categories", kind |-> RASHODY, ok |-> okE],
                       [op |-> "fetch_categories", kind |-> DOHODY, ok |-> okI] >>]

\* GoogleSheetsClient.refresh_categories_cache: the result returned, the file
\* after the call and the remote reads made; okE and okI are the outcomes of
\* the two remote reads
refresh_categories_cache(file, t, okE, okI) ==
    LET cleared == clear_cache(file)
        expenses == _fetch_categories_from_sheets(RASHODY, okE)
        income == _fetch_categories_from_sheets(DOHODY, okI)
        categories == (RASHODY :> expenses) @@ (DOHODY :> income)
    IN  [result |-> [success |-> TRUE,
                     expenses_count |-> Len(expenses),
                     income_count |-> Len(income),
                     total_categories |-> Len(expenses) + Len(income)],
         file |-> save_categories(categories, t),
         calls |-> << [op |-> "fetch_categories", kind |-> RASHODY, ok |-> okE],
                      [op |-> "fetch_categories", kind |-> DOHODY, ok |-> okI] >>]

----------------------------------------------------------------------------
(* Transaction (models/transaction.py) *)

\* the days of a month of the proleptic Gregorian calendar
DaysInMonth(month, year) ==
    IF month \in {4, 6, 9, 11} THEN 30
    ELSE IF month # 2 THEN 31
    ELSE IF year % 4 = 0 /\ (year % 100 # 0 \/ year % 400 = 0) THEN 29
    ELSE 28

\* datetime.strptime(date, "%d.%m.%Y") succeeds
strptime_ok(date) ==
    LET parts == Split(date, ".", -1) IN
    /\ Len(parts) = 3
    /\ \A i \in 1..3 : parts[i] # <<>> /\ IsDigits(parts[i])
    /\ Len(parts[1]) <= 2 /\ Len(parts[2]) <= 2 /\ Len(parts[3]) = 4
    /\ DigitsValue(parts[3]) >= 1
    /\ DigitsValue(parts[2]) \in 1..12
    /\ DigitsValue(parts[1]) \in 1..DaysInMonth(DigitsValue(parts[2]), DigitsValue(parts[3]))

\* Transaction.__post_init__ raises nothing
post_init_ok(transaction_type, date) ==
    /\ Lower(transaction_type) \in Kinds
    /\ strptime_ok(date)

SessionKeys == {"transaction_type", "date", "amount", "description", "category"}

\* Transaction(transaction_type=user_session['transaction_type'], ...)
\* raises KeyError or ValueError
TransactionRaises(user_session) ==
    ~ /\ HasKeys(user_session, SessionKeys)
      /\ post_init_ok(user_session["transaction_type"], user_session["date"])

\* the object constructed when it does not raise
Transaction(user_session) ==
    [transaction_type |-> user_session["transaction_type"],
     date |-> user_session["date"],
     amount |-> user_session["amount"],
     description |-> user_session["description"],
     category |-> user_session["category"]]

\* the digits of the integer part with a comma before every group of three
RECURSIVE Grouped(_)
Grouped(digits) ==
    IF Len(digits) <= 3 THEN digits
    ELSE Grouped(SubSeq(digits, 1, Len(digits) - 3)) \o <<",">>
         \o SubSeq(digits, Len(digits) - 2, Len(digits))

\* m / 10^k in hundredths, rounded to the nearest, ties to even
Hundredths(m, k) ==
    IF k <= 2 THEN m * Pow10(2 - k)
    ELSE LET unit == Pow10(k - 2)
             q == m \div unit
             r == m % unit
         IN  IF 2 * r > unit \/ (2 * r = unit /\ q % 2 = 1) THEN q + 1 ELSE q

\* f"{amount:,.2f}"
FormatMoney(x) ==
    LET sign == IF x.neg THEN <<"-">> ELSE <<>> IN
    CASE x.cls = "inf" -> sign \o <<"inf">>
      [] x.cls = "nan" -> <<"nan">>
      [] OTHER ->
            LET h == Hundredths(x.m, x.k) IN
            sign \o Grouped(NatDigits(h \div 100)) \o <<".">> \o TwoDigits(h % 100)

ExpenseEmoji == "money_with_wings"
IncomeEmoji == "money_bag"

\* Transaction.format_for_display: the text, one atom per character (the
\* emoji, the line break and the words of the free fields are atoms)
format_for_display(transaction) ==
    LET type_emoji == IF Lower(transaction.transaction_type) = RASHODY
                      THEN ExpenseEmoji ELSE IncomeEmoji
        amount_display ==
            Replace(FormatMoney(transaction.amount) \o <<" ", "r", ".">>, ".", ",")
    IN  <<type_emoji, " ">> \o transaction.date \o <<" ", "|", " ">>
        \o amount_display \o <<" ", "|", " ">> \o transaction.category
        \o <<"\n", "memo", " ">> \o transaction.description

----------------------------------------------------------------------------
(* The ledger worksheet 'Tranzakcii': rows of ten cells, columns A..J.
   Expenses live in B..E, incomes in G..J, data starts at row 5. *)

Columns == 10
EmptyRow == [c \in 1..Columns |-> Blank]

HeaderRow ==
    <<Blank, <<"Data">>, <<"Summa">>, <<"Opisanie">>, <<"Kategoriya">>,
      Blank, <<"Data">>, <<"Summa">>, <<"Opisanie">>, <<"Kategoriya">>>>

RowUsed(row) == \E c \in 1..Columns : row[c] # Blank

\* worksheet.get_all_values() returns the rows up to the last used one
RECURSIVE UsedRows(_)
UsedRows(rows) ==
    IF rows = <<>> THEN 0
    ELSE IF RowUsed(rows[Len(rows)]) THEN Len(rows)
    ELSE UsedRows(SubSeq(rows, 1, Len(rows) - 1))

\* first column of the block of a kind: B for expenses, G for incomes
BlockStart(transaction_type) == IF transaction_type = RASHODY THEN 2 ELSE 7

\* worksheet.update('B{r}:E{r}', [[a, b, c, d]]) / 'G{r}:J{r}'
UpdateRange(rows, r, first, values) ==
    LET padded == [i \in 1..(IF r > Len(rows) THEN r ELSE Len(rows)) |->
                       IF i <= Len(rows) THEN rows[i] ELSE EmptyRow]
    IN  [padded EXCEPT ![r] =
            [c \in 1..Columns |->
                IF c >= first /\ c < first + Len(values)
                THEN values[c - first + 1] ELSE @[c]]]

\* variant: the new record is written over the last used row
add_transaction_over_last_row(rows, transaction_type, date, amount, description, category) ==
    LET empty_row == UsedRows(rows) IN
    UpdateRange(rows, empty_row, BlockStart(transaction_type),
                <<date, amount, description, category>>)

\* GoogleSheetsClient.add_transaction, when the remote calls succeed
add_transaction(rows, transaction_type, date, amount, description, category) ==
    LET empty_row == UsedRows(rows) + 1 IN
    UpdateRange(rows, empty_row, BlockStart(transaction_type),
                <<date, amount, description, category>>)

DataStartRow == 5

\* str.lower() of a text
LowerText(s) == [i \in 1..Len(s) |-> Lower(s[i])]

\* the records of the rows from i on: the expense of a row, then its income
RECURSIVE ListRows(_, _)
ListRows(data, i) ==
    IF i > Len(data) THEN <<>>
    ELSE LET row == data[i]
             expense ==
                 IF Len(row) > 4 /\ row[2] # Blank /\ row[3] # Blank /\ row[5] # Blank
                 THEN << [Tip |-> "Rashody", Data |-> row[2], Summa |-> row[3],
                          Opisanie |-> row[4], Kategoriya |-> row[5], Stroka |-> i] >>
                 ELSE <<>>
             income ==
                 IF Len(row) > 9 /\ row[7] # Blank /\ row[8] # Blank /\ row[10] # Blank
                 THEN << [Tip |-> "Dohody", Data |-> row[7], Summa |-> row[8],
                          Opisanie |-> row[9], Kategoriya |-> row[10], Stroka |-> i] >>
                 ELSE <<>>
         IN  expense \o income \o ListRows(data, i + 1)

\* GoogleSheetsClient.get_transactions_df("vse"): the rows of the frame;
\* ok = FALSE is a failed remote read, which gives the empty frame
get_transactions_df(rows, ok) ==
    IF ~ok THEN <<>>
    ELSE LET data == SubSeq(rows, 1, UsedRows(rows)) IN
         IF data = <<>> THEN <<>> ELSE ListRows(data, DataStartRow)

VSE == "vse"

\* the records of the rows from i on that a listing of transaction_type
\* ("rashody", "dohody" or "vse", in any case) takes
RECURSIVE ListRowsOf(_, _, _)
ListRowsOf(data, i, transaction_type) ==
    IF i > Len(data) THEN <<>>
    ELSE LET row == data[i]
             wanted == LowerText(transaction_type)
             expense ==
                 IF /\ wanted \in {<<RASHODY>>, <<VSE>>}
                    /\ Len(row) > 4 /\ row[2] # Blank /\ row[3] # Blank /\ row[5] # Blank
                 THEN << [Tip |-> "Rashody", Data |-> row[2], Summa |-> row[3],
                          Opisanie |-> row[4], Kategoriya |-> row[5], Stroka |-> i] >>
                 ELSE <<>>
             income ==
                 IF /\ wanted \in {<<DOHODY>>, <<VSE>>}
                    /\ Len(row) > 9 /\ row[7] # Blank /\ row[8] # Blank /\ row[10] # Blank
                 THEN << [Tip |-> "Dohody", Data |-> row[7], Summa |-> row[8],
                          Opisanie |-> row[9], Kategoriya |-> row[10], Stroka |-> i] >>
                 ELSE <<>>
         IN  expense \o income \o ListRowsOf(data, i + 1, transaction_type)

\* GoogleSheetsClient.get_transactions_df(transaction_type)
get_transactions_of(rows, transaction_type, ok) ==
    IF ~ok THEN <<>>
    ELSE LET data == SubSeq(rows, 1, UsedRows(rows)) IN
         IF data = <<>> THEN <<>>
         ELSE ListRowsOf(data, DataStartRow, transaction_type)

\* str.replace(old, '') for one-atom old
Remove(s, old) == SelectSeq(s, LAMBDA a : a # old)

\* GoogleSheetsClient._parse_amount: the currency mark and the blanks go,
\* the comma becomes a dot; a text that is no number gives 0.0
_parse_amount(amount_str) ==
    LET amount_clean == Replace(Remove(Remove(amount_str, "r."), " "), ",", ".")
        x == float(amount_clean)
    IN  IF x = ValueError THEN Normalize(FALSE, 0, 0) ELSE x

\* variant: the whole row is cleared
ClearRow(rows, r, first, count) ==
    IF r > Len(rows) THEN rows
    ELSE [rows EXCEPT ![r] = EmptyRow]

\* worksheet.batch_clear(['B{r}:E{r}']) / 'G{r}:J{r}'
ClearRange(rows, r, first, count) ==
    IF r > Len(rows) THEN rows
    ELSE [rows EXCEPT ![r] =
            [c \in 1..Columns |->
                IF c >= first /\ c < first + count THEN Blank ELSE @[c]]]

\* variant: clearing a block that is already empty is an error
delete_transaction_once(rows, row_index, transaction_type, ok) ==
    IF LowerText(transaction_type) \notin {<<RASHODY>>, <<DOHODY>>}
    THEN [raised |-> TRUE, sheet |-> rows, calls |-> <<>>]
    ELSE LET kind == LowerText(transaction_type)[1]
             first == BlockStart(kind)
             empty == \/ row_index < 1 \/ row_index > Len(rows)
                      \/ \A c \in first..(first + 3) : rows[row_index][c] = Blank
             made == << [op |-> "clear", ok |-> ok /\ ~empty,
                         row |-> row_index, kind |-> kind] >>
         IN  IF ~ok \/ empty
             THEN [raised |-> TRUE, sheet |-> rows, calls |-> made]
             ELSE [raised |-> FALSE,
                   sheet |-> ClearRange(rows, row_index, first, 4),
                   calls |-> made]

\* GoogleSheetsClient.delete_transaction: whether it raised, the ledger
\* after it and the remote calls made; ok is the outcome of the remote call
delete_transaction(rows, row_index, transaction_type, ok) ==
    IF LowerText(transaction_type) \notin {<<RASHODY>>, <<DOHODY>>}
    THEN [raised |-> TRUE, sheet |-> rows, calls |-> <<>>]
    ELSE LET kind == LowerText(transaction_type)[1]
             made == << [op |-> "clear", ok |-> ok /\ row_index >= 1,
                         row |-> row_index, kind |-> kind] >>
         IN  IF ~ok \/ row_index < 1
             THEN [raised |-> TRUE, sheet |-> rows, calls |-> made]
             ELSE [raised |-> FALSE,
                   sheet |-> ClearRange(rows, row_index, BlockStart(kind), 4),
                   calls |-> made]

----------------------------------------------------------------------------
(* Inbound events *)

\* callback payloads: what the keyboards generate, and malformed selectors
add_expense == <<"add", "_", "expense">>
add_income == <<"add", "_", "income">>
confirm_add == <<"confirm", "_", "add">>
cancel_add == <<"cancel", "_", "add">>
back_to_main == <<"back", "_", "to", "_", "main">>

\* get_categories_keyboard: f"cat_{transaction_type}_{category}"
CategoryPayload(transaction_type, category) ==
    <<"cat", "_", transaction_type, "_">> \o category

\* the buttons of get_categories_keyboard
get_categories_keyboard(categories, transaction_type) ==
    [i \in 1..Len(categories) |-> CategoryPayload(transaction_type, categories[i])]
    \o <<back_to_main>>

\* callback data of the delete button of the main menu
DeleteButton == <<"delete", "_", "transaction">>
clear_cache_button == <<"clear", "_", "cache">>

RecentCount == 10

\* variant: the last records of the frame in the order of the frame
get_transactions_list_keyboard_in_frame_order(df, action) ==
    IF df = <<>> THEN << <<"no", "_", "transactions">>, back_to_main >>
    ELSE LET n == Len(df)
             shown == IF n > RecentCount THEN RecentCount ELSE n
             recent_transactions == [i \in 1..shown |-> df[n - shown + i]]
         IN  [i \in 1..shown |->
                 <<action, "_", "trans", "_">>
                 \o NatDigits(recent_transactions[i].Stroka)
                 \o <<"_", Lower(recent_transactions[i].Tip)>>]
             \o <<back_to_main>>

\* get_transactions_list_keyboard: df.tail(10).iloc[::-1], one button
\* f"{action}_trans_{row}_{kind}" per record, then the back button
get_transactions_list_keyboard(df, action) ==
    IF df = <<>> THEN << <<"no", "_", "transactions">>, back_to_main >>
    ELSE LET n == Len(df)
             shown == IF n > RecentCount THEN RecentCount ELSE n
             recent_transactions == [i \in 1..shown |-> df[n - i + 1]]
         IN  [i \in 1..shown |->
                 <<action, "_", "trans", "_">>
                 \o NatDigits(recent_transactions[i].Stroka)
                 \o <<"_", Lower(recent_transactions[i].Tip)>>]
             \o <<back_to_main>>

\* get_delete_confirmation_keyboard: f"confirm_delete_{row}_{kind}", cancel
get_delete_confirmation_keyboard(transaction_row, transaction_type) ==
    << <<"confirm", "_", "delete", "_">> \o NatDigits(transaction_row)
       \o <<"_">> \o transaction_type,
       DeleteButton >>

MalformedPayloads ==
    { <<"cat", "_">>,
      <<"cat", "_", RASHODY>>,
      <<"cat", "_", RASHODY, "_">>,
      <<"confirm", "_", "edit">> }

KeyboardPayloads ==
    {add_expense, add_income, confirm_add, cancel_add, back_to_main}
    \cup UNION { { CategoryPayload(k, cats[i]) : i \in 1..Len(cats) } :
                 <<k, cats>> \in { <<kk, _fetch_categories_from_sheets(kk, TRUE)>> : kk \in Kinds } }

Payloads == KeyboardPayloads \cup MalformedPayloads

\* free-text messages
Texts ==
    { CancelText, SkipText,
      <<"1", "5", "0", ",", "5", "0">>,
      <<"0">>, <<"-", "5">>, <<"inf">>, <<"nan">>,
      <<"Obed">> }

\* the texts a user sends at a position: every text while an amount is
\* awaited, a word or a token otherwise
TextsAt(position) ==
    IF position = "TransactionStates:entering_amount" THEN Texts
    ELSE {CancelText, SkipText, <<"Obed">>}

\* the registration order of _register_handlers: the first callback handler
\* whose filter accepts the payload
Route(data) ==
    IF data \in {add_expense, add_income} THEN "handle_add_transaction"
    ELSE IF StartsWith(data, <<"cat", "_">>) THEN "handle_category_selection"
    ELSE IF /\ StartsWith(data, <<"confirm", "_">>)
            /\ ~StartsWith(data, <<"confirm", "_", "delete", "_">>)
            /\ ~StartsWith(data, <<"confirm", "_", "edit", "_">>)
         THEN "handle_confirmation"
    ELSE IF StartsWith(data, <<"cancel", "_">>) THEN "handle_cancellation"
    ELSE IF data = back_to_main THEN "handle_back_to_main"
    ELSE IF data = DeleteButton THEN "handle_delete_transaction"
    ELSE IF data = clear_cache_button THEN "handle_clear_cache"
    ELSE IF StartsWith(data, <<"delete", "_", "trans", "_">>)
         THEN "handle_delete_transaction_selection"
    ELSE IF StartsWith(data, <<"confirm", "_", "delete", "_">>)
         THEN "handle_confirm_delete_transaction"
    ELSE "none"

----------------------------------------------------------------------------
(* Session and position stores *)

\* FinanceBot.get_user_data: the store after the lookup
get_user_data(store, user_id) ==
    IF user_id \in DOMAIN store THEN store
    ELSE [u \in DOMAIN store \cup {user_id} |->
             IF u = user_id THEN EmptyDict ELSE store[u]]

\* FinanceBot.clear_user_data
clear_user_data(store, user_id) ==
    IF user_id \in DOMAIN store
    THEN [store EXCEPT ![user_id] = EmptyDict]
    ELSE store

\* the session bag of a user in a store, empty when the user has none
SessionIn(store, user_id) ==
    IF user_id \in DOMAIN store THEN store[user_id] ELSE EmptyDict

Session(user_id) == SessionIn(user_data, user_id)

\* bot.set_state / bot.delete_state
set_state(st, user_id, value, chat_id) == [st EXCEPT ![<<user_id, chat_id>>] = value]
delete_state(st, user_id, chat_id) == [st EXCEPT ![<<user_id, chat_id>>] = None]

Reply(tag, data) == [tag |-> tag, data |-> data]

----------------------------------------------------------------------------
(* Handlers.  Each handler is an operator from the state before the event and
   the event's inputs to the outcome: the stores after it, the answer to the
   user and the gateway calls made. *)

Outcome(ud, st, sh, file, tag, data, made) ==
    [user_data |-> ud, state |-> st, sheet |-> sh, cache |-> file,
     reply |-> Reply(tag, data), calls |-> made]

\* the handler answered and changed nothing
Answer(tag) == Outcome(user_data, state, sheet, cache, tag, <<>>, <<>>)

\* FinanceBot.send_welcome (/start, /help)
send_welcome(user_id, chat_id) ==
    IF ~check_access(user_id) THEN Answer("access_denied")
    ELSE Outcome(user_data, set_state(state, user_id, main_menu, chat_id),
                 sheet, cache, "welcome", <<>>, <<>>)

\* variant: the main menu is shown without clearing the session
show_main_menu_keeps_session(user_id, chat_id) ==
    IF ~check_access(user_id) THEN Answer("access_denied")
    ELSE Outcome(user_data, set_state(state, user_id, main_menu, chat_id),
                 sheet, cache, "main_menu", <<>>, <<>>)

\* FinanceBot.show_main_menu (/menu, and the cancel token of the entry states)
show_main_menu(user_id, chat_id) ==
    IF ~check_access(user_id) THEN Answer("access_denied")
    ELSE Outcome(clear_user_data(user_data, user_id),
                 set_state(state, user_id, main_menu, chat_id),
                 sheet, cache, "main_menu", <<>>, <<>>)

\* variant: the position is set before the category list is looked at
handle_add_transaction_sets_state_first(user_id, chat_id, data, ok, okE, okI) ==
    IF ~check_access(user_id) THEN Answer("access_denied")
    ELSE
    LET transaction_type == IF data = add_expense THEN RASHODY ELSE DOHODY
        store == get_user_data(user_data, user_id)
        ud == [store EXCEPT ![user_id] =
                  DictSet(@, "transaction_type", transaction_type)]
        st == set_state(state, user_id, choosing_category, chat_id)
        got == get_categories(cache, now, transaction_type, ok, okE, okI)
    IN  IF got.categories = <<>>
        THEN Outcome(ud, st, sheet, got.file, "no_categories", <<>>, got.calls)
        ELSE Outcome(ud, st, sheet, got.file, "choose_category",
                     get_categories_keyboard(got.categories, transaction_type),
                     got.calls)

\* FinanceBot.handle_add_transaction
handle_add_transaction(user_id, chat_id, data, ok, okE, okI) ==
    IF ~check_access(user_id) THEN Answer("access_denied")
    ELSE
    LET transaction_type == IF data = add_expense THEN RASHODY ELSE DOHODY
        store == get_user_data(user_data, user_id)
        ud == [store EXCEPT ![user_id] =
                  DictSet(@, "transaction_type", transaction_type)]
        got == get_categories(cache, now, transaction_type, ok, okE, okI)
    IN  IF got.categories = <<>>
        THEN Outcome(ud, state, sheet, got.file, "no_categories", <<>>, got.calls)
        ELSE Outcome(ud, set_state(state, user_id, choosing_category, chat_id),
                     sheet, got.file, "choose_category",
                     get_categories_keyboard(got.categories, transaction_type),
                     got.calls)

\* variant: the payload is split at every separator
handle_category_selection_splits_all(user_id, chat_id, data) ==
    LET parts == Split(data, "_", -1) IN
    IF Len(parts) # 3 THEN Answer("data_error")
    ELSE
    LET category == parts[3]
        store == get_user_data(user_data, user_id)
        ud == [store EXCEPT ![user_id] = DictSet(@, "category", category)]
    IN  Outcome(ud, set_state(state, user_id, entering_amount, chat_id),
                sheet, cache, "enter_amount", category, <<>>)

\* FinanceBot.handle_category_selection
handle_category_selection(user_id, chat_id, data) ==
    LET parts == Split(data, "_", 2) IN
    IF Len(parts) # 3 THEN Answer("data_error")
    ELSE
    LET category == parts[3]
        store == get_user_data(user_data, user_id)
        ud == [store EXCEPT ![user_id] = DictSet(@, "category", category)]
    IN  Outcome(ud, set_state(state, user_id, entering_amount, chat_id),
                sheet, cache, "enter_amount", category, <<>>)

\* FinanceBot.handle_amount_input_manual
handle_amount_input_manual(user_id, chat_id, text) ==
    IF text = CancelText THEN show_main_menu(user_id, chat_id)
    ELSE
    LET amount_text == Replace(text, ",", ".")
        amount_float == float(amount_text)
    IN  IF amount_float = ValueError \/ LeqZero(amount_float)
        THEN Answer("bad_amount")
        ELSE
        LET store == get_user_data(user_data, user_id)
            ud == [store EXCEPT ![user_id] = DictSet(@, "amount", amount_float)]
        IN  Outcome(ud, set_state(state, user_id, entering_description, chat_id),
                    sheet, cache, "enter_description", <<>>, <<>>)

\* FinanceBot.handle_description_input_manual
handle_description_input_manual(user_id, chat_id, text) ==
    IF text = CancelText THEN show_main_menu(user_id, chat_id)
    ELSE
    LET store == get_user_data(user_data, user_id)
        description == IF text = SkipText THEN NoDescription ELSE text
        current_date == strftime(now)
        user_session == DictSet(DictSet(store[user_id], "description", description),
                                "date", current_date)
        ud == [store EXCEPT ![user_id] = user_session]
    IN  IF TransactionRaises(user_session)
        THEN Outcome(ud, state, sheet, cache, "error", <<>>, <<>>)
        ELSE Outcome(ud, set_state(state, user_id, confirming, chat_id),
                     sheet, cache, "confirmation", Transaction(user_session), <<>>)

\* variant: a text sent in Confirming is taken as a new description
handle_all_messages_redescribes(user_id, chat_id, text) ==
    IF ~check_access(user_id) THEN Answer("access_denied")
    ELSE
    LET user_state == state[<<user_id, chat_id>>] IN
    IF user_state = entering_amount
    THEN handle_amount_input_manual(user_id, chat_id, text)
    ELSE IF user_state \in {entering_description, confirming}
    THEN handle_description_input_manual(user_id, chat_id, text)
    ELSE Answer("unknown_command")

\* FinanceBot.handle_all_messages: the catch-all text handler
handle_all_messages(user_id, chat_id, text) ==
    IF ~check_access(user_id) THEN Answer("access_denied")
    ELSE
    LET user_state == state[<<user_id, chat_id>>] IN
    IF user_state = entering_amount
    THEN handle_amount_input_manual(user_id, chat_id, text)
    ELSE IF user_state = entering_description
    THEN handle_description_input_manual(user_id, chat_id, text)
    ELSE IF user_state = confirming THEN Answer("await_confirmation")
    ELSE Answer("unknown_command")

\* variant: a failed append keeps session and position, so that confirm can
\* be pressed again
handle_confirmation_keeps_failed(user_id, chat_id, data, ok) ==
    LET action == Split(data, "_", 1)[2] IN
    IF action = <<"add">>
    THEN
        LET store == get_user_data(user_data, user_id)
            transaction == Transaction(store[user_id])
            made == << [op |-> "append", ok |-> ok, record |-> transaction] >>
        IN  IF TransactionRaises(store[user_id])
            THEN Outcome(store, state, sheet, cache, "error", <<>>, <<>>)
            ELSE IF ~ok
            THEN Outcome(store, state, sheet, cache, "add_failed", <<>>, made)
            ELSE Outcome(clear_user_data(store, user_id),
                         delete_state(state, user_id, chat_id),
                         add_transaction(sheet, transaction.transaction_type,
                                        transaction.date, CellText(transaction.amount),
                                        transaction.description, transaction.category),
                         cache, "added", <<>>, made)
    ELSE Outcome(user_data, delete_state(state, user_id, chat_id),
                 sheet, cache, "none", <<>>, <<>>)

\* FinanceBot.handle_confirmation; ok is the outcome of the gateway append
handle_confirmation(user_id, chat_id, data, ok) ==
    LET action == Split(data, "_", 1)[2] IN
    IF action = <<"add">>
    THEN
        LET store == get_user_data(user_data, user_id)
            transaction == Transaction(store[user_id])
        IN  IF TransactionRaises(store[user_id])
            THEN Outcome(store, state, sheet, cache, "error", <<>>, <<>>)
            ELSE Outcome(clear_user_data(store, user_id),
                         delete_state(state, user_id, chat_id),
                         IF ok THEN add_transaction(sheet, transaction.transaction_type,
                                        transaction.date, CellText(transaction.amount),
                                        transaction.description, transaction.category)
                               ELSE sheet,
                         cache,
                         IF ok THEN "added" ELSE "add_failed", <<>>,
                         << [op |-> "append", ok |-> ok, record |-> transaction] >>)
    ELSE Outcome(user_data, delete_state(state, user_id, chat_id),
                 sheet, cache, "none", <<>>, <<>>)

\* variant: cancel removes the position and leaves the session
handle_cancellation_keeps_session(user_id, chat_id) ==
    Outcome(user_data, delete_state(state, user_id, chat_id),
            sheet, cache, "cancelled", <<>>, <<>>)

\* FinanceBot.handle_cancellation
handle_cancellation(user_id, chat_id) ==
    Outcome(clear_user_data(user_data, user_id),
            delete_state(state, user_id, chat_id),
            sheet, cache, "cancelled", <<>>, <<>>)

\* FinanceBot.handle_back_to_main
handle_back_to_main(user_id, chat_id) ==
    Outcome(clear_user_data(user_data, user_id),
            delete_state(state, user_id, chat_id),
            sheet, cache, "main_menu", <<>>, <<>>)

\* int(text) of a callback field succeeds
IsInt(s) == s # <<>> /\ IsDigits(s)

\* FinanceBot.handle_delete_transaction; ok is the outcome of the remote read
handle_delete_transaction(user_id, chat_id, ok) ==
    LET df == get_transactions_df(sheet, ok) IN
    IF df = <<>>
    THEN Outcome(user_data, state, sheet, cache, "no_transactions",
                 <<back_to_main>>, <<>>)
    ELSE Outcome(user_data, state, sheet, cache, "choose_transaction",
                 get_transactions_list_keyboard(df, "delete"), <<>>)

\* FinanceBot.handle_delete_transaction_selection
handle_delete_transaction_selection(user_id, chat_id, data, ok) ==
    LET parts == Split(data, "_", -1) IN
    IF Len(parts) < 4 THEN Answer("data_error")
    ELSE IF ~IsInt(parts[3]) THEN Answer("error")
    ELSE
    LET row_index == DigitsValue(parts[3])
        transaction_type == parts[4]
        df == get_transactions_df(sheet, ok)
        transaction_data == SelectSeq(df, LAMBDA r : r.Stroka = row_index)
    IN  IF df = <<>> THEN Answer("error")
        ELSE IF transaction_data = <<>> THEN Answer("not_found")
        ELSE Outcome(user_data, state, sheet, cache, "confirm_delete",
                     get_delete_confirmation_keyboard(row_index, transaction_type),
                     <<>>)

\* the record handle_delete_transaction_selection puts into its confirmation
\* text, for a payload it answers with the confirmation:
\* df[df['Stroka'] == row_index].iloc[0]
DisplayedRecord(rows, data) ==
    LET parts == Split(data, "_", -1)
        row_index == DigitsValue(parts[3])
        df == get_transactions_df(rows, TRUE)
        transaction_data == SelectSeq(df, LAMBDA r : r.Stroka = row_index)
    IN  transaction_data[1]

\* FinanceBot.handle_confirm_delete_transaction; ok is the outcome of the
\* remote clear
handle_confirm_delete_transaction(user_id, chat_id, data, ok) ==
    LET parts == Split(data, "_", -1) IN
    IF Len(parts) < 4 THEN Answer("data_error")
    ELSE IF ~IsInt(parts[3])
    THEN Outcome(user_data, state, sheet, cache, "delete_error",
                 <<back_to_main>>, <<>>)
    ELSE
    LET row_index == DigitsValue(parts[3])
        transaction_type == parts[4]
        cleared == delete_transaction(sheet, row_index, transaction_type, ok)
    IN  IF cleared.raised
        THEN Outcome(user_data, state, sheet, cache, "delete_error",
                     <<back_to_main>>, cleared.calls)
        ELSE Outcome(user_data, state, cleared.sheet, cache, "deleted",
                     <<>>, cleared.calls)

\* FinanceBot.handle_clear_cache
handle_clear_cache(user_id, chat_id) ==
    Outcome(user_data, state, sheet, clear_cache(cache), "cache_cleared",
            <<>>, <<>>)

\* the callback handler that _register_handlers selects for a payload, applied
handle_callback(user_id, chat_id, data, ok) ==
    CASE Route(data) = "handle_add_transaction" ->
            handle_add_transaction(user_id, chat_id, data, ok, ok, ok)
      [] Route(data) = "handle_category_selection" ->
            handle_category_selection(user_id, chat_id, data)
      [] Route(data) = "handle_confirmation" ->
            handle_confirmation(user_id, chat_id, data, ok)
      [] Route(data) = "handle_cancellation" ->
            handle_cancellation(user_id, chat_id)
      [] Route(data) = "handle_back_to_main" ->
            handle_back_to_main(user_id, chat_id)
      [] Route(data) = "handle_delete_transaction" ->
            handle_delete_transaction(user_id, chat_id, ok)
      [] Route(data) = "handle_delete_transaction_selection" ->
            handle_delete_transaction_selection(user_id, chat_id, data, ok)
      [] Route(data) = "handle_confirm_delete_transaction" ->
            handle_confirm_delete_transaction(user_id, chat_id, data, ok)
      [] Route(data) = "handle_clear_cache" ->
            handle_clear_cache(user_id, chat_id)
      [] OTHER -> Answer("none")

----------------------------------------------------------------------------
(* The dialog in progress: the inputs a user gave in an unbroken run
   add -> pick category -> amount -> description in one chat.  It is a
   record of what the user sent, kept beside the program's own stores. *)

\* stages: 1 kind chosen, 2 category picked, 3 amount given, 4 description
\* given (confirmation shown), 5 confirm pressed
NoDialog ==
    [stage |-> 0, chat |-> 0, kind |-> "", picked |-> Blank,
     amount_text |-> Blank, description_text |-> Blank, at |-> 0]

\* the dialog record of the user after an event with the given answer
NextDialog(d, chat_id, handler, tag, input) ==
    IF handler = "handle_add_transaction" /\ tag = "choose_category"
    THEN [NoDialog EXCEPT !.stage = 1, !.chat = chat_id,
                          !.kind = IF input = add_expense THEN RASHODY ELSE DOHODY]
    ELSE IF d.stage = 0 \/ d.chat # chat_id THEN NoDialog
    ELSE IF handler = "handle_category_selection" /\ tag = "enter_amount" /\ d.stage = 1
    THEN [d EXCEPT !.stage = 2, !.picked = input]
    ELSE IF handler = "handle_all_messages" /\ tag = "bad_amount" /\ d.stage = 2
    THEN d
    ELSE IF handler = "handle_all_messages" /\ tag = "enter_description" /\ d.stage = 2
    THEN [d EXCEPT !.stage = 3, !.amount_text = input]
    ELSE IF handler = "handle_all_messages" /\ tag = "confirmation" /\ d.stage = 3
    THEN [d EXCEPT !.stage = 4, !.description_text = input, !.at = now]
    ELSE IF handler = "handle_all_messages" /\ tag = "await_confirmation" /\ d.stage = 4
    THEN d
    ELSE IF handler = "handle_confirmation" /\ tag \in {"added", "add_failed"} /\ d.stage = 4
    THEN [d EXCEPT !.stage = 5]
    ELSE NoDialog

----------------------------------------------------------------------------
(* Actions: one per registered handler *)

NoProbe == [op |-> "none"]

\* the process after FinanceBot.__init__: no session, no position
Boot ==
    /\ user_data = EmptyDict
    /\ state = [p \in Users \X Chats |-> None]
    /\ event = [handler |-> "none", user |-> 0, chat |-> 0, tag |-> "none",
                from |-> None]
    /\ dialog = [u \in Users |-> NoDialog]
    /\ handled = 0

\* the ledger with its header rows and no record
EmptyLedger == [i \in 1..(DataStartRow - 1) |-> HeaderRow]

Init ==
    /\ Boot
    /\ sheet = EmptyLedger
    /\ cache = Missing
    /\ now = 0
    /\ probe = NoProbe

Dispatch(handler, u, c, input, out) ==
    /\ handled < MaxEvents
    /\ handled' = handled + 1
    /\ event' = [handler |-> handler, user |-> u, chat |-> c, tag |-> out.reply.tag,
                 from |-> state[<<u, c>>]]
    /\ user_data' = out.user_data
    /\ state' = out.state
    /\ sheet' = out.sheet
    /\ cache' = out.cache
    /\ dialog' = [dialog EXCEPT ![u] = NextDialog(@, c, handler, out.reply.tag, input)]

Handle(handler, u, c, input, out) ==
    /\ Dispatch(handler, u, c, input, out)
    /\ UNCHANGED <<now, probe>>

\* the ledger has room for one more data row
HasRoom == UsedRows(sheet) < DataStartRow - 1 + MaxDataRows

Start(u, c) == Handle("send_welcome", u, c, <<>>, send_welcome(u, c))

Menu(u, c) == Handle("show_main_menu", u, c, <<>>, show_main_menu(u, c))

\* the remote summary sheet is reachable, or not, for the whole event
AddTransaction(u, c) ==
    \E data \in Payloads, ok \in BOOLEAN :
        /\ Route(data) = "handle_add_transaction"
        /\ Handle("handle_add_transaction", u, c, data,
                  handle_add_transaction(u, c, data, ok, ok, ok))

\* a press of a category button, or a malformed selector
CategorySelection(u, c) ==
    \/ \E k \in Kinds :
        \E i \in 1..Len(_fetch_categories_from_sheets(k, TRUE)) :
          LET category == _fetch_categories_from_sheets(k, TRUE)[i]
              data == CategoryPayload(k, category)
          IN  /\ Route(data) = "handle_category_selection"
              /\ Handle("handle_category_selection", u, c, category,
                        handle_category_selection(u, c, data))
    \/ \E data \in MalformedPayloads :
        /\ Route(data) = "handle_category_selection"
        /\ Handle("handle_category_selection", u, c, Blank,
                  handle_category_selection(u, c, data))

Confirmation(u, c) ==
    \E data \in Payloads, ok \in BOOLEAN :
        /\ Route(data) = "handle_confirmation"
        /\ ok => HasRoom
        /\ Handle("handle_confirmation", u, c, data,
                  handle_confirmation(u, c, data, ok))

Cancellation(u, c) ==
    \E data \in Payloads :
        /\ Route(data) = "handle_cancellation"
        /\ Handle("handle_cancellation", u, c, data, handle_cancellation(u, c))

BackToMain(u, c) ==
    \E data \in Payloads :
        /\ Route(data) = "handle_back_to_main"
        /\ Handle("handle_back_to_main", u, c, data, handle_back_to_main(u, c))

AllMessages(u, c) ==
    \E text \in TextsAt(state[<<u, c>>]) :
        Handle("handle_all_messages", u, c, text, handle_all_messages(u, c, text))

\* time passes between events
Tick ==
    /\ \E step \in TickSteps :
        /\ now + step \in Hours
        /\ now' = now + step
    /\ event' = [handler |-> "tick", user |-> 0, chat |-> 0, tag |-> "none",
                 from |-> None]
    /\ UNCHANGED <<user_data, state, sheet, cache, dialog, handled, probe>>

Next ==
    \/ \E u \in ALLOWED_USER_IDS, c \in Chats :
        \/ Start(u, c)
        \/ Menu(u, c)
        \/ AddTransaction(u, c)
        \/ CategorySelection(u, c)
        \/ Confirmation(u, c)
        \/ Cancellation(u, c)
        \/ BackToMain(u, c)
        \/ AllMessages(u, c)

Spec == Init /\ [][Next]_vars

----------------------------------------------------------------------------
(* Transaction constructed directly, for every combination of field values *)

KindInputs == {RASHODY, DOHODY, "Rashody", "perevod", ""}

DateInputs ==
    { <<"0", "1", ".", "1", "1", ".", "2", "0", "2", "6">>,
      <<"1", ".", "1", ".", "2", "0", "2", "6">>,
      <<"2", "9", ".", "0", "2", ".", "2", "0", "2", "4">>,
      <<"3", "1", ".", "1", "1", ".", "2", "0", "2", "6">>,
      <<"2", "0", "2", "6", "-", "1", "1", "-", "0", "1">>,
      <<>> }

AmountInputs ==
    { float(<<"1", "5", "0", ".", "5">>), float(<<"0">>), float(<<"-", "5">>),
      float(<<"inf">>), float(<<"nan">>), float(<<"1", "5", "0", "0">>) }

CategoryInputs == { <<"Eda">>, Blank }

TransactionInputs ==
    [transaction_type : KindInputs, date : DateInputs, amount : AmountInputs,
     description : {<<"Obed">>}, category : CategoryInputs]

InitRecord ==
    /\ Boot
    /\ sheet = EmptyLedger
    /\ cache = Missing
    /\ now = 0
    /\ probe \in [op : {"Transaction"}, args : TransactionInputs,
                  done : {FALSE}, raised : {FALSE}, shown : {<<>>}]

\* Transaction(**args): __post_init__ runs on the field values
Construct ==
    /\ probe.op = "Transaction"
    /\ ~probe.done
    /\ probe' = [probe EXCEPT !.done = TRUE,
                              !.raised = ~post_init_ok(probe.args.transaction_type,
                                                       probe.args.date)]
    /\ UNCHANGED <<user_data, state, sheet, cache, now, event, dialog, handled>>

\* transaction.format_for_display() on a constructed object
FormatForDisplay ==
    /\ probe.op = "Transaction"
    /\ probe.done
    /\ ~probe.raised
    /\ probe' = [probe EXCEPT !.op = "format_for_display",
                              !.shown = format_for_display(probe.args)]
    /\ UNCHANGED <<user_data, state, sheet, cache, now, event, dialog, handled>>

NextRecord == Construct \/ FormatForDisplay

SpecRecord == InitRecord /\ [][NextRecord]_vars

----------------------------------------------------------------------------
(* The category cache on its own: writes, reads and the clock.  probe keeps
   the last operation with its results, the clock value of the last write
   of the file (written, -1 when there is no file) and the mapping last
   written (saved); age is the age of the file when the operation ran. *)

CategoryMappings ==
    { EmptyDict,
      (RASHODY :> << <<"Stale">>, <<"Stale">> >>) @@ (DOHODY :> <<>>),
      (RASHODY :> << <<"Kofe">>, <<"\"", "Avto", "\\">> >>)
          @@ (DOHODY :> << <<"Stale">> >>),
      (DOHODY :> << <<"Stale">> >>) }

CacheProbe(op, age, kind, valid, loaded, listed, fetched, written, saved) ==
    [op |-> op, age |-> age, kind |-> kind, valid |-> valid, loaded |-> loaded,
     listed |-> listed, fetched |-> fetched, written |-> written, saved |-> saved]

InitCache ==
    /\ Boot
    /\ sheet = EmptyLedger
    /\ cache = Missing
    /\ now = 0
    /\ probe = CacheProbe("none", -1, "", FALSE, EmptyDict, <<>>, FALSE, -1, EmptyDict)

Age == IF probe.written < 0 THEN -1 ELSE now - probe.written

Quiet == UNCHANGED <<user_data, state, sheet, now, event, dialog, handled>>

SaveCategories ==
    \E categories \in CategoryMappings :
        /\ cache' = save_categories(categories, now)
        /\ probe' = CacheProbe("save_categories", Age, "", FALSE, EmptyDict, <<>>,
                               FALSE, now, categories)
        /\ Quiet

LoadCategories ==
    /\ probe' = CacheProbe("load_categories", Age, "", FALSE,
                           load_categories(cache, now), <<>>, FALSE,
                           probe.written, probe.saved)
    /\ UNCHANGED cache
    /\ Quiet

IsCacheValid ==
    /\ probe' = CacheProbe("is_cache_valid", Age, "", is_cache_valid(cache, now),
                           EmptyDict, <<>>, FALSE, probe.written, probe.saved)
    /\ UNCHANGED cache
    /\ Quiet

GetCategories ==
    \E category_type \in Kinds, ok \in BOOLEAN, okE \in BOOLEAN, okI \in BOOLEAN :
        LET got == get_categories(cache, now, category_type, ok, okE, okI)
            missed == got.calls # <<>>
        IN  /\ cache' = got.file
            /\ probe' = CacheProbe("get_categories", Age, category_type, ok,
                                   EmptyDict, got.categories, missed,
                                   IF missed THEN now ELSE probe.written,
                                   IF missed
                                   THEN (RASHODY :> _fetch_categories_from_sheets(RASHODY, okE))
                                        @@ (DOHODY :> _fetch_categories_from_sheets(DOHODY, okI))
                                   ELSE probe.saved)
            /\ Quiet

RefreshCategories ==
    \E okE \in BOOLEAN, okI \in BOOLEAN :
        LET refreshed == refresh_categories_cache(cache, now, okE, okI) IN
        /\ cache' = refreshed.file
        /\ probe' = CacheProbe("refresh_categories_cache", Age, "",
                               refreshed.result.success, EmptyDict, <<>>, TRUE, now,
                               (RASHODY :> _fetch_categories_from_sheets(RASHODY, okE))
                               @@ (DOHODY :> _fetch_categories_from_sheets(DOHODY, okI)))
        /\ Quiet

GetCacheInfo ==
    /\ probe' = CacheProbe("get_cache_info", Age, "", FALSE,
                           get_cache_info(cache, now), <<>>, FALSE,
                           probe.written, probe.saved)
    /\ UNCHANGED cache
    /\ Quiet

ClearCache ==
    /\ cache.exists
    /\ cache' = clear_cache(cache)
    /\ probe' = CacheProbe("clear_cache", Age, "", FALSE, EmptyDict, <<>>, FALSE,
                           -1, EmptyDict)
    /\ Quiet

NextCache ==
    \/ Tick
    \/ SaveCategories
    \/ LoadCategories
    \/ IsCacheValid
    \/ GetCategories
    \/ RefreshCategories
    \/ GetCacheInfo
    \/ ClearCache

SpecCache == InitCache /\ [][NextCache]_vars

----------------------------------------------------------------------------
(* The cache file as its readers can find it: missing, written in full, cut
   off at any point of a write that is still going on, or holding a text
   that is no cache document. *)

\* the text save_categories writes for a mapping at a clock value
WrittenText(categories, t) ==
    json_dump([timestamp |-> isoformat(t), categories |-> categories])

\* the file while the text is being written: its first k atoms, from the
\* empty file after the truncation on
PartialTexts ==
    UNION { { SubSeq(WrittenText(categories, t), 1, k) :
                k \in 0..(Len(WrittenText(categories, t)) - 1) } :
            <<categories, t>> \in CategoryMappings \X Hours }

\* texts that json.load does not decode to a document
GarbageTexts ==
    { <<"x">>,
      <<"[", "]">>,
      <<"{", "\"", "timestamp", "\"", "}">> }

\* documents that decode: without a timestamp, and with one that is no
\* ISO date
OddDocuments ==
    { <<"{">> \o JsonString(<<"categories">>) \o <<":">>
          \o JsonDict((RASHODY :> << <<"Stale">> >>)) \o <<"}">>,
      <<"{">> \o JsonString(<<"timestamp">>) \o <<":">> \o JsonString(<<"vchera">>)
          \o <<",">> \o JsonString(<<"categories">>) \o <<":">>
          \o JsonDict((RASHODY :> << <<"Stale">> >>)) \o <<"}">> }

\* a reader finds the file in the middle of a save
InterruptedSave ==
    \E categories \in CategoryMappings :
        \E k \in 0..(Len(WrittenText(categories, now)) - 1) :
            /\ cache' = FileWith(SubSeq(WrittenText(categories, now), 1, k))
            /\ probe' = CacheProbe("interrupted_save", Age, "", FALSE, EmptyDict,
                                   <<>>, FALSE, -1, categories)
            /\ Quiet

\* the file holds something else than a cache document
ForeignFile ==
    \E text \in GarbageTexts \cup OddDocuments :
        /\ cache' = FileWith(text)
        /\ probe' = CacheProbe("foreign_file", Age, "", FALSE, EmptyDict, <<>>,
                               FALSE, -1, EmptyDict)
        /\ Quiet

NextFile ==
    \/ SaveCategories
    \/ InterruptedSave
    \/ ForeignFile
    \/ LoadCategories
    \/ IsCacheValid
    \/ GetCacheInfo
    \/ GetCategories
    \/ ClearCache

SpecFile == InitCache /\ [][NextFile]_vars

----------------------------------------------------------------------------
(* The deletion flow over a ledger that already holds records.  probe keeps,
   beside the last operation: the records appended and not cleared, oldest
   first (appended); how many more may be appended (room); the buttons last
   offered (offered) and the records they stood for when they were built
   (shown); the confirmation button last offered (confirm), the record it
   stands for (selected) and the remote calls of the last confirmation. *)

AppendedKind(n) == IF n % 2 = 1 THEN RASHODY ELSE DOHODY

\* the ledger after n appends of alternating kinds
RECURSIVE LedgerAfter(_)
LedgerAfter(n) ==
    IF n = 0 THEN EmptyLedger
    ELSE add_transaction(LedgerAfter(n - 1), AppendedKind(n), strftime(0),
                         CellText(float(<<"5">>)), <<"Obed">>, <<"Eda">>)

AppendedAfter(n) ==
    [i \in 1..n |-> [row |-> DataStartRow - 1 + i, kind |-> AppendedKind(i),
                     listed |-> TRUE]]

\* the ledger starts one record short of a full list, or one record over
InitialRecords == {RecentCount - 1, RecentCount + 1}

NoRecord == [row |-> 0, kind |-> "", listed |-> FALSE]

InitLedger ==
    /\ Boot
    /\ cache = Missing
    /\ now = 0
    /\ \E n \in InitialRecords :
        /\ sheet = LedgerAfter(n)
        /\ probe = [op |-> "none", appended |-> AppendedAfter(n),
                    room |-> MaxDataRows, offered |-> <<>>, shown |-> <<>>,
                    confirm |-> <<>>, selected |-> NoRecord, calls |-> <<>>]

\* the records a listing holds, most recently appended first, ten at most
RecentlyAppended ==
    LET present == SelectSeq(probe.appended, LAMBDA a : a.listed)
        n == Len(present)
        shown == IF n > RecentCount THEN RecentCount ELSE n
    IN  [i \in 1..shown |-> present[n - i + 1]]

\* a record is appended through the gateway
AppendRecord ==
    /\ probe.room > 0
    /\ \E transaction_type \in Kinds, category \in CategoryInputs :
        /\ sheet' = add_transaction(sheet, transaction_type, strftime(now),
                                    CellText(float(<<"5">>)), <<"Obed">>, category)
        /\ LET row == CHOOSE r \in 1..Len(sheet') :
                          r > Len(sheet) \/ sheet'[r] # sheet[r]
           IN  probe' = [probe EXCEPT
                            !.op = "add_transaction",
                            !.room = @ - 1,
                            !.appended = Append(@, [row |-> row,
                                                    kind |-> transaction_type,
                                                    listed |-> category # Blank])]
    /\ UNCHANGED <<user_data, state, cache, now, event, dialog, handled>>

DeleteTransaction(u, c) ==
    \E ok \in BOOLEAN :
        LET out == handle_delete_transaction(u, c, ok) IN
        /\ Dispatch("handle_delete_transaction", u, c, DeleteButton, out)
        /\ probe' = [probe EXCEPT !.op = "handle_delete_transaction",
                                  !.offered = out.reply.data,
                                  !.shown = IF out.reply.tag = "choose_transaction"
                                            THEN RecentlyAppended ELSE <<>>]
        /\ UNCHANGED now

\* the user presses the first or the last record button of the list last
\* offered
DeleteSelection(u, c) ==
    \E i \in {1, Len(probe.shown)}, ok \in BOOLEAN :
        LET data == probe.offered[i]
            out == handle_delete_transaction_selection(u, c, data, ok)
            shown == out.reply.tag = "confirm_delete"
        IN  /\ i \in 1..Len(probe.offered)
            /\ Route(data) = "handle_delete_transaction_selection"
            /\ Dispatch("handle_delete_transaction_selection", u, c, data, out)
            /\ probe' = [probe EXCEPT
                            !.op = "handle_delete_transaction_selection",
                            !.confirm = IF shown THEN out.reply.data[1] ELSE @,
                            !.selected = IF shown THEN probe.shown[i] ELSE @]
            /\ UNCHANGED now

MalformedDeletePayloads ==
    { <<"confirm", "_", "delete", "_", "5">>,
      <<"confirm", "_", "delete", "_", "x", "_", RASHODY>>,
      <<"confirm", "_", "delete", "_", "5", "_", "perevod">> }

\* the user presses the confirmation button last offered, or a malformed
\* payload arrives
ConfirmDelete(u, c) ==
    \E data \in {probe.confirm} \cup MalformedDeletePayloads, ok \in BOOLEAN :
        LET out == handle_confirm_delete_transaction(u, c, data, ok)
            gone == out.reply.tag = "deleted" /\ data = probe.confirm
        IN  /\ Route(data) = "handle_confirm_delete_transaction"
            /\ Dispatch("handle_confirm_delete_transaction", u, c, data, out)
            /\ probe' = [probe EXCEPT
                            !.op = "handle_confirm_delete_transaction",
                            !.calls = out.calls,
                            !.appended =
                                IF gone
                                THEN SelectSeq(@, LAMBDA a :
                                        ~(a.row = probe.selected.row
                                          /\ a.kind = probe.selected.kind))
                                ELSE @]
            /\ UNCHANGED now

\* the deletion flow runs in one chat
LedgerChats == {1}

NextLedger ==
    \/ AppendRecord
    \/ \E u \in ALLOWED_USER_IDS, c \in LedgerChats :
        \/ Start(u, c)
        \/ DeleteTransaction(u, c)
        \/ DeleteSelection(u, c)
        \/ ConfirmDelete(u, c)

SpecLedger == InitLedger /\ [][NextLedger]_vars

----------------------------------------------------------------------------
(* The gateway's ledger operations over ledgers of any content.  probe keeps
   the last operation, the ledger before it (before), its kind, row, amount
   and category, whether it raised, how many times in a row the same block
   was cleared (times) and how many more records may be appended (room). *)

ExpenseCells == <<strftime(0), <<"7">>, <<"Taksi">>, <<"Transport">>>>
IncomeCells == <<strftime(0), <<"9">>, <<"Avans">>, <<"Zarplata">>>>

\* a data row: with an expense, an income, both or neither
DataRow(expense, income) ==
    [c \in 1..Columns |->
        IF expense /\ c \in 2..5 THEN ExpenseCells[c - 1]
        ELSE IF income /\ c \in 7..10 THEN IncomeCells[c - 6]
        ELSE Blank]

\* the ledger views: the empty worksheet, a worksheet with fewer rows than
\* the header takes, and the header followed by one or two data rows
LedgerContents ==
    { SubSeq(EmptyLedger, 1, k) : k \in 0..(DataStartRow - 1) }
    \cup { EmptyLedger \o <<DataRow(TRUE, i)>> : i \in BOOLEAN }
    \cup { EmptyLedger \o <<DataRow(e, TRUE), DataRow(TRUE, TRUE)>> : e \in BOOLEAN }

\* the records appended: kind, amount and category
AppendInputs ==
    { <<RASHODY, float(<<"5">>), <<"Eda">>>>,
      <<RASHODY, float(<<"1", "2", ".", "5">>), <<"Eda">>>>,
      <<RASHODY, float(<<"5">>), Blank>>,
      <<DOHODY, float(<<"5">>), <<"Eda">>>> }

DeleteKinds == { <<RASHODY>>, <<DOHODY>>, <<"perevod">> }

\* the rows a block is cleared at: the data rows, the last row of a shorter
\* ledger and the row after the last one
DeleteRows(rows) ==
    { r \in 1..(Len(rows) + 1) : r >= DataStartRow \/ r = Len(rows) }

InitSheet ==
    /\ Boot
    /\ cache = Missing
    /\ now = 0
    /\ sheet \in LedgerContents
    /\ probe = [op |-> "none", before |-> <<>>, kind |-> <<>>, row |-> 0,
                amount |-> float(<<"0">>), category |-> Blank,
                raised |-> FALSE, times |-> 0, room |-> MaxDataRows]

Still == UNCHANGED <<user_data, state, cache, now, event, dialog, handled>>

\* add_transaction(kind, date, amount, description, category)
SheetAppend ==
    /\ probe.room > 0
    /\ \E input \in AppendInputs :
        LET transaction_type == input[1]
            amount == input[2]
            category == input[3]
        IN
        /\ sheet' = add_transaction(sheet, transaction_type, strftime(now),
                                    CellText(amount), <<"Obed">>, category)
        /\ LET row == CHOOSE r \in 1..Len(sheet') :
                          r > Len(sheet) \/ sheet'[r] # sheet[r]
           IN  probe' = [op |-> "add_transaction", before |-> sheet,
                         kind |-> <<transaction_type>>, row |-> row,
                         amount |-> amount, category |-> category,
                         raised |-> FALSE, times |-> 0,
                         room |-> probe.room - 1]
    /\ Still

\* delete_transaction(row_index, transaction_type)
SheetDelete ==
    /\ \E row_index \in DeleteRows(sheet), transaction_type \in DeleteKinds,
          ok \in BOOLEAN :
        LET out == delete_transaction(sheet, row_index, transaction_type, ok)
            again == /\ probe.op = "delete_transaction"
                     /\ ~probe.raised
                     /\ probe.row = row_index
                     /\ LowerText(probe.kind) = LowerText(transaction_type)
        IN  /\ sheet' = out.sheet
            /\ probe' = [probe EXCEPT
                            !.op = "delete_transaction",
                            !.before = sheet,
                            !.kind = transaction_type,
                            !.row = row_index,
                            !.raised = out.raised,
                            !.times = IF out.raised THEN 0
                                      ELSE IF again THEN 2 ELSE 1]
    /\ Still

\* get_transactions_df(transaction_type)
SheetList ==
    /\ \E transaction_type \in {<<RASHODY>>, <<VSE>>}, ok \in BOOLEAN :
        probe' = [op |-> "get_transactions_df", before |-> <<>>,
                  kind |-> transaction_type,
                  row |-> Len(get_transactions_of(sheet, transaction_type, ok)),
                  amount |-> float(<<"0">>), category |-> Blank,
                  raised |-> FALSE, times |-> 0, room |-> probe.room]
    /\ UNCHANGED sheet
    /\ Still

NextSheet == SheetAppend \/ SheetDelete \/ SheetList

SpecSheet == InitSheet /\ [][NextSheet]_vars

----------------------------------------------------------------------------
(* Events of every sender, allowed or not, over a ledger that holds one
   record and a cache that was filled at hour 0 *)

SelectFirst == <<"delete", "_", "trans", "_">> \o NatDigits(DataStartRow) \o <<"_", RASHODY>>
ConfirmFirst == get_delete_confirmation_keyboard(DataStartRow, <<RASHODY>>)[1]

\* the payloads pressed: the buttons of the menus, of one category and of
\* the record at the first data row
AccessPayloads ==
    { add_expense, CategoryPayload(RASHODY, _fetch_categories_from_sheets(RASHODY, TRUE)[1]),
      confirm_add, cancel_add, back_to_main, DeleteButton, SelectFirst,
      ConfirmFirst, clear_cache_button }

AccessChats == {1}

InitAccess ==
    /\ Boot
    /\ sheet = LedgerAfter(1)
    /\ cache = _update_cache_with_categories(0, TRUE, TRUE)
    /\ now = 0
    /\ probe = NoProbe

\* a button press of any payload, handled by the handler registered for it
Press(u, c) ==
    \E data \in AccessPayloads, ok \in BOOLEAN :
        /\ Route(data) # "none"
        /\ (Route(data) = "handle_confirmation" /\ ok) =>
               UsedRows(sheet) < DataStartRow + MaxDataRows
        /\ Handle(Route(data), u, c, data, handle_callback(u, c, data, ok))

NextAccess ==
    \E u \in Users, c \in AccessChats :
        \/ Start(u, c)
        \/ Menu(u, c)
        \/ AllMessages(u, c)
        \/ Press(u, c)

SpecAccess == InitAccess /\ [][NextAccess]_vars

----------------------------------------------------------------------------
(* One press of a button that a keyboard generated.  probe keeps what the
   button was built for (intent), its payload, the handler it was routed to
   and what the handler made of it. *)

\* category names, some with the separator of the payload in them
PayloadCategories ==
    { <<"Eda">>, <<"Eda", "_", "doma">>, <<"_">>, <<"Kofe", "_">>,
      <<"cat", "_", RASHODY>>, <<"confirm", "_", "delete", "_", "5">> }

LedgerSizes == 1..(RecentCount + 2)

NoIntent ==
    [button |-> "none", kind |-> "", category |-> Blank, row |-> 0, index |-> 0]

\* what the buttons of the keyboards stand for over the ledger rows; the
\* i-th record button stands for the i-th most recent record
Intents(rows) ==
    LET df == get_transactions_df(rows, TRUE)
        n == Len(df)
        shown == IF n > RecentCount THEN RecentCount ELSE n
        listed == { [kind |-> Lower(df[n - i + 1].Tip), row |-> df[n - i + 1].Stroka,
                     index |-> i] : i \in 1..shown }
    IN  { [NoIntent EXCEPT !.button = "category", !.kind = k, !.category = category] :
              k \in Kinds, category \in PayloadCategories }
        \cup { [NoIntent EXCEPT !.button = b, !.kind = r.kind, !.row = r.row,
                                !.index = r.index] :
                  b \in {"select", "confirm_delete"}, r \in listed }
        \cup { [NoIntent EXCEPT !.button = b] : b \in {"confirm", "cancel"} }

\* the payload the keyboard gives the button
PayloadOf(intent, rows) ==
    CASE intent.button = "category" ->
            get_categories_keyboard(<<intent.category>>, intent.kind)[1]
      [] intent.button = "select" ->
            get_transactions_list_keyboard(get_transactions_df(rows, TRUE),
                                           "delete")[intent.index]
      [] intent.button = "confirm_delete" ->
            get_delete_confirmation_keyboard(intent.row, <<intent.kind>>)[1]
      [] intent.button = "confirm" -> confirm_add
      [] OTHER -> cancel_add

InitPayload ==
    /\ Boot
    /\ cache = Missing
    /\ now = 0
    /\ \E n \in LedgerSizes : sheet = LedgerAfter(n)
    /\ probe = [op |-> "none", intent |-> NoIntent, data |-> <<>>,
                handler |-> "none", category |-> Blank, offered |-> <<>>,
                calls |-> <<>>]

\* the user presses one generated button
PressGenerated(u, c) ==
    /\ probe.op = "none"
    /\ \E intent \in Intents(sheet) :
        LET data == PayloadOf(intent, sheet)
            out == handle_callback(u, c, data, TRUE)
        IN  /\ Dispatch(Route(data), u, c, data, out)
            /\ probe' = [op |-> "press", intent |-> intent, data |-> data,
                         handler |-> Route(data),
                         category |-> Get(SessionIn(out.user_data, u), "category", Blank),
                         offered |-> out.reply.data, calls |-> out.calls]
            /\ UNCHANGED now

NextPayload == \E u \in ALLOWED_USER_IDS, c \in LedgerChats : PressGenerated(u, c)

SpecPayload == InitPayload /\ [][NextPayload]_vars

----------------------------------------------------------------------------
(* Events after a confirmation was shown: the user has gone through an add
   dialog in chat 1 and the confirmation message with its buttons is on the
   screen.  probe keeps, per chat, the records shown in confirmation messages
   (shown) and the record of the gateway append of the last event, if it
   made one (appended). *)

ShownSession ==
    DictSet(DictSet(DictSet(DictSet(DictSet(EmptyDict,
        "transaction_type", RASHODY),
        "category", <<"Eda">>),
        "amount", float(<<"1", "5", "0", ".", "5">>)),
        "description", <<"Obed">>),
        "date", strftime(0))

InitConfirm ==
    /\ user_data = [u \in {1} |-> ShownSession]
    /\ state = [p \in Users \X Chats |-> IF p = <<1, 1>> THEN confirming ELSE None]
    /\ event = [handler |-> "none", user |-> 0, chat |-> 0, tag |-> "none",
                from |-> None]
    /\ dialog = [u \in Users |-> NoDialog]
    /\ handled = 0
    /\ sheet = EmptyLedger
    /\ cache = _update_cache_with_categories(0, TRUE, TRUE)
    /\ now = 0
    /\ probe = [shown |-> [c \in Chats |-> IF c = 1 THEN {Transaction(ShownSession)}
                                           ELSE {}],
                appended |-> <<>>]

\* the event is dispatched; a confirmation it shows and an append it makes
\* are kept
Observed(handler, u, c, input, out) ==
    /\ Dispatch(handler, u, c, input, out)
    /\ probe' = [shown |-> IF out.reply.tag = "confirmation"
                           THEN [probe.shown EXCEPT ![c] = @ \cup {out.reply.data}]
                           ELSE probe.shown,
                 appended |-> SelectSeq(out.calls, LAMBDA call : call.op = "append")]
    /\ UNCHANGED now

\* /start or /menu
Command(u, c) ==
    \/ Observed("send_welcome", u, c, <<>>, send_welcome(u, c))
    \/ Observed("show_main_menu", u, c, <<>>, show_main_menu(u, c))

\* a text message
TextMessage(u, c) ==
    \E text \in TextsAt(state[<<u, c>>]) :
        Observed("handle_all_messages", u, c, text, handle_all_messages(u, c, text))

\* a press of a button of a message on the screen of the chat; the confirm
\* and cancel buttons are those of a confirmation message shown there
ButtonPress(u, c) ==
    \E data \in KeyboardPayloads, ok \in BOOLEAN :
        /\ data \in {confirm_add, cancel_add} => probe.shown[c] # {}
        /\ (Route(data) = "handle_confirmation" /\ ok) => HasRoom
        /\ Observed(Route(data), u, c, data, handle_callback(u, c, data, ok))

NextConfirm ==
    \E u \in ALLOWED_USER_IDS, c \in Chats :
        \/ Command(u, c)
        \/ TextMessage(u, c)
        \/ ButtonPress(u, c)

SpecConfirm == InitConfirm /\ [][NextConfirm]_vars

----------------------------------------------------------------------------
(* The cache file while it is being written.  save_categories opens the file
   for writing, which empties it, json.dump hands the text to the file in
   pieces and the end of the with block completes it;
   refresh_categories_cache removes the file before it fetches.  Another
   handler may read the file between any two of these steps.  probe keeps the
   position of the writer (pc), the file before the writer began (old), the
   text it writes (new), what the last reader found (seen) and the operation
   the writer belongs to (op). *)

NotRead == [exists |-> FALSE, text |-> <<"not", "read">>]

FileState(file) == [exists |-> file.exists, text |-> file.text]

FetchedDocument(t, okE, okI) ==
    WrittenText((RASHODY :> _fetch_categories_from_sheets(RASHODY, okE))
                @@ (DOHODY :> _fetch_categories_from_sheets(DOHODY, okI)), t)

InitWrite ==
    /\ Boot
    /\ sheet = EmptyLedger
    /\ now = 0
    /\ \E okE \in BOOLEAN, okI \in BOOLEAN :
        /\ cache = _update_cache_with_categories(0, okE, okI)
        /\ probe = [pc |-> "idle", old |-> FileState(cache), new |-> cache.text,
                    seen |-> NotRead, op |-> "none"]

\* _update_cache_with_categories fetched both lists; save_categories opens
\* the file with mode 'w'
SaveOpen ==
    /\ probe.pc = "idle"
    /\ \E okE \in BOOLEAN, okI \in BOOLEAN :
        probe' = [pc |-> "dumping", old |-> FileState(cache),
                  new |-> FetchedDocument(now, okE, okI), seen |-> NotRead,
                  op |-> "_update_cache_with_categories"]
    /\ cache' = FileWith(<<>>)
    /\ Quiet

\* refresh_categories_cache: clear_cache removes the file
RefreshClear ==
    /\ probe.pc = "idle"
    /\ probe' = [pc |-> "fetching", old |-> FileState(cache), new |-> cache.text,
                 seen |-> NotRead, op |-> "refresh_categories_cache"]
    /\ cache' = clear_cache(cache)
    /\ Quiet

\* refresh_categories_cache: the two remote reads, then save_categories
\* opens the file with mode 'w'
RefreshOpen ==
    /\ probe.pc = "fetching"
    /\ \E okE \in BOOLEAN, okI \in BOOLEAN :
        probe' = [probe EXCEPT !.pc = "dumping",
                               !.new = FetchedDocument(now, okE, okI),
                               !.seen = NotRead]
    /\ cache' = FileWith(<<>>)
    /\ Quiet

\* json.dump: some more of the text reaches the file
Dump ==
    /\ probe.pc = "dumping"
    /\ \E k \in (Len(cache.text) + 1)..(Len(probe.new) - 1) :
        cache' = FileWith(SubSeq(probe.new, 1, k))
    /\ probe' = [probe EXCEPT !.seen = NotRead]
    /\ Quiet

\* the end of the with block: the rest of the text reaches the file
Close ==
    /\ probe.pc = "dumping"
    /\ cache' = FileWith(probe.new)
    /\ probe' = [probe EXCEPT !.pc = "idle", !.seen = NotRead]
    /\ Quiet

\* another handler opens and reads the file (load_categories, is_cache_valid,
\* get_cache_info)
ReadFile ==
    /\ probe.seen = NotRead
    /\ probe' = [probe EXCEPT !.seen = FileState(cache)]
    /\ UNCHANGED cache
    /\ Quiet

Later ==
    /\ probe.pc = "idle"
    /\ \E step \in TickSteps :
        /\ now + step \in Hours
        /\ now' = now + step
    /\ probe' = [probe EXCEPT !.seen = NotRead]
    /\ UNCHANGED <<user_data, state, sheet, cache, event, dialog, handled>>

NextWrite ==
    \/ SaveOpen
    \/ RefreshClear
    \/ RefreshOpen
    \/ Dump
    \/ Close
    \/ ReadFile
    \/ Later

SpecWrite == InitWrite /\ [][NextWrite]_vars

----------------------------------------------------------------------------
(* Two presses of the confirm button in the hands of the two worker threads
   of the dispatcher.  The bot is constructed with the dispatcher's worker
   threads left on and no handler takes a lock, so the statements of
   handle_confirmation and of add_transaction of one press interleave with
   those of the other.  probe keeps, per worker, the statement it is at (pc),
   the record it built and the row it computed; the add_transaction calls
   begun (calls); and the writes made, oldest first, each with the ledger
   before it (written). *)

Workers == {1, 2}

\* the user who presses and the chat of the confirmation message
Presser == CHOOSE u \in ALLOWED_USER_IDS : TRUE
PressChat == CHOOSE c \in Chats : TRUE

IdleWorker == [pc |-> "idle", record |-> <<>>, row |-> 0]

ConfirmedSessions ==
    { ShownSession,
      DictSet(DictSet(ShownSession, "transaction_type", DOHODY),
              "category", <<"Zarplata">>) }

InitThreads ==
    /\ \E session \in ConfirmedSessions : user_data = [u \in {Presser} |-> session]
    /\ state = [p \in Users \X Chats |->
                    IF p = <<Presser, PressChat>> THEN confirming ELSE None]
    /\ event = [handler |-> "none", user |-> 0, chat |-> 0, tag |-> "none",
                from |-> None]
    /\ dialog = [u \in Users |-> NoDialog]
    /\ handled = 0
    /\ sheet = EmptyLedger
    /\ cache = _update_cache_with_categories(0, TRUE, TRUE)
    /\ now = 0
    /\ probe = [workers |-> [w \in Workers |-> IdleWorker],
                calls |-> 0, written |-> <<>>]

At_(w, pc) == probe.workers[w].pc = pc

Goto(w, pc) == [probe EXCEPT !.workers[w].pc = pc]

Rest == UNCHANGED <<cache, now, event, dialog, handled>>

\* the dispatcher hands a confirm press to a free worker
Receive(w) ==
    /\ At_(w, "idle")
    /\ probe' = Goto(w, "session")
    /\ UNCHANGED <<user_data, state, sheet>>
    /\ Rest

\* handle_confirmation: the session is read and the Transaction built; a
\* missing key or a rejected field ends the handler in the outer except
ReadSession(w) ==
    /\ At_(w, "session")
    /\ LET store == get_user_data(user_data, Presser) IN
        /\ user_data' = store
        /\ probe' = IF TransactionRaises(store[Presser])
                     THEN Goto(w, "done")
                     ELSE [probe EXCEPT !.workers[w] =
                              [pc |-> "rows", record |-> Transaction(store[Presser]),
                               row |-> 0]]
    /\ UNCHANGED <<state, sheet>>
    /\ Rest

\* add_transaction: data = worksheet.get_all_values(); empty_row = len(data) + 1;
\* a failed remote read ends the call in the inner except of the handler
ReadRows(w) ==
    /\ At_(w, "rows")
    /\ \E ok \in BOOLEAN :
        probe' = [probe EXCEPT
                     !.calls = @ + 1,
                     !.workers[w].pc = IF ok THEN "update" ELSE "clear",
                     !.workers[w].row = IF ok THEN UsedRows(sheet) + 1 ELSE 0]
    /\ UNCHANGED <<user_data, state, sheet>>
    /\ Rest

\* add_transaction: worksheet.update(range_name, [[date, amount, description,
\* category]]) at the row computed before
Update(w) ==
    /\ At_(w, "update")
    /\ LET worker == probe.workers[w]
            transaction == worker.record
        IN  /\ sheet' = UpdateRange(sheet, worker.row,
                                    BlockStart(transaction.transaction_type),
                                    <<transaction.date, CellText(transaction.amount),
                                      transaction.description, transaction.category>>)
            /\ probe' = [probe EXCEPT
                            !.workers[w].pc = "clear",
                            !.written = Append(@,
                                [row |-> worker.row,
                                 kind |-> transaction.transaction_type,
                                 before |-> sheet, deleted |-> FALSE])]
    /\ UNCHANGED <<user_data, state>>
    /\ Rest

\* handle_confirmation: self.clear_user_data(call.from_user.id)
ClearSession(w) ==
    /\ At_(w, "clear")
    /\ user_data' = clear_user_data(user_data, Presser)
    /\ probe' = Goto(w, "state")
    /\ UNCHANGED <<state, sheet>>
    /\ Rest

\* handle_confirmation: self.bot.delete_state(user, chat)
DeleteState(w) ==
    /\ At_(w, "state")
    /\ state' = delete_state(state, Presser, PressChat)
    /\ probe' = Goto(w, "done")
    /\ UNCHANGED <<user_data, sheet>>
    /\ Rest

\* a record written before is deleted: delete_transaction(row, kind)
DeleteWritten ==
    /\ \E i \in 1..Len(probe.written) :
        /\ ~probe.written[i].deleted
        /\ sheet' = delete_transaction(sheet, probe.written[i].row,
                                       <<probe.written[i].kind>>, TRUE).sheet
        /\ probe' = [probe EXCEPT !.written[i].deleted = TRUE]
    /\ UNCHANGED <<user_data, state>>
    /\ Rest

NextThreads ==
    \/ \E w \in Workers :
        \/ Receive(w)
        \/ ReadSession(w)
        \/ ReadRows(w)
        \/ Update(w)
        \/ ClearSession(w)
        \/ DeleteState(w)
    \/ DeleteWritten

SpecThreads == InitThreads /\ [][NextThreads]_vars

----------------------------------------------------------------------------
(* Claims *)

Pairs == ALLOWED_USER_IDS \X Chats

AppendCalls(made) == SelectSeq(made, LAMBDA call : call.op = "append")

ValidAmountText == <<"1", "5", "0", ",", "5", "0">>
OneHundredFiftyAndHalf == [cls |-> "finite", neg |-> FALSE, m |-> 1505, k |-> 1]
FirstOfNovember == <<"0", "1", ".", "1", "1", ".", "2", "0", "2", "6">>

\* the record a finished dialog collected, from what the user sent
Collected(d) ==
    [transaction_type |-> d.kind,
     date |-> FirstOfNovember,
     amount |-> OneHundredFiftyAndHalf,
     description |-> IF d.description_text = SkipText THEN NoDescription
                     ELSE d.description_text,
     category |-> d.picked]

\* the 4-cell block a record occupies in the ledger
BlockOf(rows, r, transaction_type) ==
    SubSeq(rows[r], BlockStart(transaction_type), BlockStart(transaction_type) + 3)

\* C1: when a dialog went add -> pick category -> valid amount -> description
\* in one chat and is in Confirming, pressing confirm makes exactly one
\* gateway append, carrying the kind, date, amount, description and category
\* collected in that dialog; afterwards the session is empty and the position
\* of the pair is removed.  Stated of the handler's outcome in every state
\* where such a dialog awaits confirmation, and of the state right after it.
C1_ConfirmAppendsCollected ==
    \A u \in ALLOWED_USER_IDS :
        LET d == dialog[u] IN
        /\ (d.stage = 4 /\ d.amount_text = ValidAmountText /\ d.at = 0) =>
              /\ state[<<u, d.chat>>] = confirming
              /\ \A ok \in BOOLEAN :
                    LET out == handle_confirmation(u, d.chat, confirm_add, ok) IN
                    /\ Len(out.calls) = 1
                    /\ out.calls[1].op = "append"
                    /\ out.calls[1].record = Collected(d)
                    /\ SessionIn(out.user_data, u) = EmptyDict
                    /\ out.state[<<u, d.chat>>] = None
        /\ (d.stage = 5 /\ d.amount_text = ValidAmountText /\ d.at = 0
            /\ event.handler = "handle_confirmation") =>
              /\ Session(u) = EmptyDict
              /\ state[<<u, d.chat>>] = None
              /\ event.tag = "added" =>
                    /\ UsedRows(sheet) = DataStartRow
                    /\ BlockOf(sheet, DataStartRow, d.kind) =
                          <<FirstOfNovember, <<"1", "5", "0", ".", "5">>,
                            Collected(d).description, d.picked>>

\* an expense dialog of category Eda was confirmed and its row is in the ledger
C1_Witness ==
    /\ dialog[1].stage = 5
    /\ dialog[1].kind = RASHODY
    /\ dialog[1].picked = <<"Eda">>
    /\ dialog[1].amount_text = ValidAmountText
    /\ dialog[1].description_text = <<"Obed">>
    /\ event.handler = "handle_confirmation"
    /\ event.tag = "added"
    /\ event.from = confirming
    /\ UsedRows(sheet) = DataStartRow
    /\ sheet[DataStartRow][5] = <<"Eda">>
    /\ Session(1) = EmptyDict

\* C2: from EnteringAmount, whatever the session holds, the cancel token
\* sent as text leads to position MainMenu with an empty session, and no
\* gateway append is made.
C2_CancelFromAmount ==
    /\ \A p \in Pairs :
        state[p] = entering_amount =>
            LET out == handle_all_messages(p[1], p[2], CancelText) IN
            /\ out.state[p] = main_menu
            /\ SessionIn(out.user_data, p[1]) = EmptyDict
            /\ AppendCalls(out.calls) = <<>>
            /\ out.sheet = sheet
    /\ (event.handler = "handle_all_messages" /\ event.from = entering_amount
        /\ event.tag = "main_menu") =>
            /\ state[<<event.user, event.chat>>] = main_menu
            /\ Session(event.user) = EmptyDict

\* the cancel token was sent while an amount was awaited
C2_Witness ==
    /\ event.handler = "handle_all_messages"
    /\ event.from = entering_amount
    /\ event.tag = "main_menu"
    /\ state[<<event.user, event.chat>>] = main_menu
    /\ Session(event.user) = EmptyDict

\* C3: the amount accepted in EnteringAmount is always finite and strictly
\* positive: no session ever stores an amount that is zero, negative,
\* infinite or not a number.
C3_AmountFinitePositive ==
    \A u \in Users :
        "amount" \in DOMAIN Session(u) => IsFinitePositive(Session(u)["amount"])

RejectedAmountTexts ==
    { <<"0">>, <<"-", "5">>, <<"0", ",", "0">>, <<"-", "inf">>,
      <<"1", ",", "2", ",", "3">>, <<"Obed">>, SkipText }

\* C4: in EnteringAmount a text that is not a number, or denotes a value <= 0,
\* is answered with a re-prompt; the position stays EnteringAmount and the
\* session is left exactly as it was.
C4_BadAmountReprompts ==
    /\ \A p \in Pairs :
        state[p] = entering_amount =>
            \A text \in RejectedAmountTexts :
                LET out == handle_all_messages(p[1], p[2], text) IN
                /\ out.reply.tag = "bad_amount"
                /\ out.state = state
                /\ out.user_data = user_data
    /\ event.tag = "bad_amount" =>
            /\ event.from = entering_amount
            /\ state[<<event.user, event.chat>>] = entering_amount

\* a rejected amount text was answered with the re-prompt
C4_Witness ==
    /\ event.handler = "handle_all_messages"
    /\ event.tag = "bad_amount"
    /\ state[<<event.user, event.chat>>] = entering_amount
    /\ DOMAIN Session(event.user) = {"transaction_type", "category"}

\* C5: whenever a user has no active dialog (the position is MainMenu or
\* absent in every chat), the user's session is empty.
C5_IdleSessionEmpty ==
    \A u \in Users :
        (\A c \in Chats : state[<<u, c>>] \in {None, main_menu})
            => Session(u) = EmptyDict

\* C6: if the gateway append fails when confirm is pressed in Confirming, the
\* dialog still ends: one append was attempted, the ledger is unchanged, the
\* session is cleared, the position is removed, and a further confirm press
\* attempts no append.
C6_FailedAppendEndsDialog ==
    /\ \A p \in Pairs :
        (state[p] = confirming /\ ~TransactionRaises(Session(p[1]))) =>
            LET out == handle_confirmation(p[1], p[2], confirm_add, FALSE) IN
            /\ Len(AppendCalls(out.calls)) = 1
            /\ ~out.calls[1].ok
            /\ out.reply.tag = "add_failed"
            /\ out.sheet = sheet
            /\ SessionIn(out.user_data, p[1]) = EmptyDict
            /\ out.state[p] = None
    /\ (event.handler = "handle_confirmation" /\ event.tag = "add_failed") =>
            /\ Session(event.user) = EmptyDict
            /\ state[<<event.user, event.chat>>] = None
            /\ \A ok \in BOOLEAN :
                  AppendCalls(handle_confirmation(event.user, event.chat,
                                                  confirm_add, ok).calls) = <<>>

\* the append of a confirmed dialog failed
C6_Witness ==
    /\ event.handler = "handle_confirmation"
    /\ event.tag = "add_failed"
    /\ event.from = confirming
    /\ state[<<event.user, event.chat>>] = None
    /\ UsedRows(sheet) = DataStartRow - 1

\* C7: pressing cancel in Confirming clears the session and removes the
\* position without any gateway call: ledger and category cache are unchanged.
C7_CancelInConfirming ==
    /\ \A p \in Pairs :
        state[p] = confirming =>
            LET out == handle_cancellation(p[1], p[2]) IN
            /\ out.calls = <<>>
            /\ out.sheet = sheet
            /\ out.cache = cache
            /\ SessionIn(out.user_data, p[1]) = EmptyDict
            /\ out.state[p] = None
    /\ (event.handler = "handle_cancellation" /\ event.from = confirming) =>
            /\ Session(event.user) = EmptyDict
            /\ state[<<event.user, event.chat>>] = None

\* cancel was pressed on a shown confirmation
C7_Witness ==
    /\ event.handler = "handle_cancellation"
    /\ event.from = confirming
    /\ dialog[event.user].stage = 0
    /\ Session(event.user) = EmptyDict
    /\ state[<<event.user, event.chat>>] = None

\* C8: while the position is Confirming, any free-text message (the cancel
\* and skip tokens included) is answered with a reminder, changes neither the
\* position nor the session, and triggers no gateway call.
C8_TextInConfirming ==
    /\ \A p \in Pairs :
        state[p] = confirming =>
            \A text \in Texts \cup RejectedAmountTexts :
                LET out == handle_all_messages(p[1], p[2], text) IN
                /\ out.reply.tag = "await_confirmation"
                /\ out.state = state
                /\ out.user_data = user_data
                /\ out.calls = <<>>
                /\ out.sheet = sheet
                /\ out.cache = cache
    /\ (event.handler = "handle_all_messages" /\ event.from = confirming) =>
            /\ event.tag = "await_confirmation"
            /\ state[<<event.user, event.chat>>] = confirming

\* a text was sent while a confirmation was awaited
C8_Witness ==
    /\ event.handler = "handle_all_messages"
    /\ event.from = confirming
    /\ event.tag = "await_confirmation"
    /\ dialog[event.user].stage = 4
    /\ ~TransactionRaises(Session(event.user))

\* C9: when add-expense or add-income is selected and the category list
\* obtained for the kind (from the cache, or from a remote read that succeeds
\* or fails) is empty, the position is left as it was (a user in
\* MainMenu stays there); when it is not empty, the position becomes
\* ChoosingCategory and the kind is stored in the session.
C9_EmptyCategoriesAbort ==
    /\ \A p \in Pairs, data \in {add_expense, add_income}, ok \in BOOLEAN :
        LET kind == IF data = add_expense THEN RASHODY ELSE DOHODY
            got == get_categories(cache, now, kind, ok, ok, ok)
            out == handle_add_transaction(p[1], p[2], data, ok, ok, ok)
        IN  IF got.categories = <<>>
            THEN /\ out.reply.tag = "no_categories"
                 /\ out.state = state
            ELSE /\ out.reply.tag = "choose_category"
                 /\ out.state[p] = choosing_category
                 /\ "transaction_type" \in DOMAIN SessionIn(out.user_data, p[1])
                 /\ SessionIn(out.user_data, p[1])["transaction_type"] = kind
    /\ event.tag = "no_categories" =>
            state[<<event.user, event.chat>>] = event.from
    /\ event.tag = "choose_category" =>
            /\ state[<<event.user, event.chat>>] = choosing_category
            /\ "transaction_type" \in DOMAIN Session(event.user)

\* add was selected from the main menu and no category was obtained
C9_Witness ==
    /\ event.handler = "handle_add_transaction"
    /\ event.tag = "no_categories"
    /\ event.from = main_menu
    /\ state[<<event.user, event.chat>>] = main_menu

WellFormedCategorySelectors ==
    { CategoryPayload(RASHODY, <<"Eda">>),
      CategoryPayload(DOHODY, <<"Zarplata">>),
      CategoryPayload(RASHODY, <<"Obed", "_", "doma">>) }

\* selectors with a wrong number of parts, or with an empty category part
MalformedCategorySelectors ==
    { <<"cat", "_">>, <<"cat", "_", RASHODY>>, <<"cat", "_", RASHODY, "_">> }

\* C10: in ChoosingCategory a well-formed category selector stores the
\* category and moves the position to EnteringAmount; a malformed one (wrong
\* number of parts, empty category part) leaves position and session unchanged.
C10_SelectorValidated ==
    \A p \in Pairs :
        state[p] = choosing_category =>
            /\ \A data \in WellFormedCategorySelectors :
                  LET out == handle_category_selection(p[1], p[2], data) IN
                  /\ out.state[p] = entering_amount
                  /\ SessionIn(out.user_data, p[1])["category"]
                        = SubSeq(data, 5, Len(data))
            /\ \A data \in MalformedCategorySelectors :
                  LET out == handle_category_selection(p[1], p[2], data) IN
                  /\ out.state = state
                  /\ out.user_data = user_data

NonCancelTexts == { SkipText, <<"Obed">>, <<"0">>, <<"Obed", " ", "doma">> }

\* C11: from EnteringDescription every text other than the cancel token moves
\* the position to Confirming, storing the placeholder for the skip token and
\* any other text verbatim, with the system date of that moment as the date;
\* no reachable state in EnteringDescription lets a non-cancel text fail.
C11_DescriptionReachesConfirming ==
    \A p \in Pairs :
        state[p] = entering_description =>
            \A text \in NonCancelTexts :
                LET out == handle_all_messages(p[1], p[2], text)
                    session == SessionIn(out.user_data, p[1])
                IN  /\ out.state[p] = confirming
                    /\ session["description"]
                          = (IF text = SkipText THEN NoDescription ELSE text)
                    /\ session["date"] = strftime(now)

\* C12: when a (user, chat) pair has no position and the user's session is
\* empty, any inbound input of the user in that chat (a text, or a button
\* press other than the main menu's own add entries) leaves the pair without
\* a position and the session empty.
C12_AbsentPositionStays ==
    \A p \in Pairs :
        (state[p] = None /\ Session(p[1]) = EmptyDict) =>
            /\ \A text \in Texts :
                  LET out == handle_all_messages(p[1], p[2], text) IN
                  /\ out.reply.tag = "unknown_command"
                  /\ out.state[p] = None
                  /\ SessionIn(out.user_data, p[1]) = EmptyDict
            /\ \A data \in Payloads \ {add_expense, add_income}, ok \in BOOLEAN :
                  LET out == handle_callback(p[1], p[2], data, ok) IN
                  /\ out.state[p] = None
                  /\ SessionIn(out.user_data, p[1]) = EmptyDict

\* the changes of a position the dialog allows: one step forward, or a
\* restart to MainMenu / absent from anywhere
Edge(a, b) ==
    \/ a = b
    \/ b \in {None, main_menu}
    \/ a \in {None, main_menu} /\ b = choosing_category
    \/ a = choosing_category /\ b = entering_amount
    \/ a = entering_amount /\ b = entering_description
    \/ a = entering_description /\ b = confirming

\* C13: the position of a (user, chat) pair changes only along MainMenu/absent
\* -> ChoosingCategory -> EnteringAmount -> EnteringDescription -> Confirming
\* -> removed, or by a restart to MainMenu/absent: no event moves it
\* backwards or skips a step.
C13_PositionEdges ==
    [][\A p \in Users \X Chats : Edge(state[p], state'[p])]_vars

\* the category set known for a kind
KnownCategories(transaction_type) ==
    { FetchedCategories[transaction_type][i] :
          i \in 1..Len(FetchedCategories[transaction_type]) }

\* C16: every record passed to the gateway append has a non-empty category
\* that belongs to the category set known for the record's own kind.
C16_CategoryOfOwnKind ==
    \A p \in Pairs, ok \in BOOLEAN :
        LET made == AppendCalls(handle_confirmation(p[1], p[2], confirm_add, ok).calls)
        IN  \A i \in 1..Len(made) :
                /\ made[i].record.category # Blank
                /\ made[i].record.transaction_type \in Kinds
                /\ made[i].record.category
                      \in KnownCategories(made[i].record.transaction_type)

\* x > 0 on floats
GreaterThanZero(x) ==
    \/ x.cls = "finite" /\ ~x.neg /\ x.m > 0
    \/ x.cls = "inf" /\ ~x.neg

\* C17: constructing a Transaction succeeds only if amount > 0, the date
\* parses as DD.MM.YYYY, the kind is expense or income and the category is
\* not empty; otherwise a validation error is raised.
C17_ConstructionValidates ==
    (probe.op = "Transaction" /\ probe.done) =>
        (~probe.raised <=>
            /\ GreaterThanZero(probe.args.amount)
            /\ strptime_ok(probe.args.date)
            /\ Lower(probe.args.transaction_type) \in Kinds
            /\ probe.args.category # Blank)

\* C18: load_categories, is_cache_valid and get_categories treat a cache file
\* as valid only while its age is strictly below 24 hours; a file exactly
\* 24 hours old, or older, is a miss for all three
C18_DayOldIsMiss ==
    probe.age >= cache_expiry_hours =>
        /\ probe.op = "load_categories" => probe.loaded = EmptyDict
        /\ probe.op = "is_cache_valid" => ~probe.valid
        /\ probe.op = "get_categories" => probe.fetched

\* a file that was not written by the last failed refetch holds this list
StaleNames == { <<"Stale">>, <<"Kofe">> }

\* C19: a cache file written 25 hours ago is a miss whatever it holds:
\* is_cache_valid is false, load_categories returns the empty mapping,
\* get_categories reads the remote again and returns what that read gave,
\* the empty list when the read failed
C19_TwentyFiveHoursIsMiss ==
    probe.age = cache_expiry_hours + 1 =>
        /\ probe.op = "load_categories" => probe.loaded = EmptyDict
        /\ probe.op = "is_cache_valid" => ~probe.valid
        /\ probe.op = "get_categories" =>
                /\ probe.fetched
                /\ probe.listed = _fetch_categories_from_sheets(probe.kind, probe.valid)
                /\ ~probe.valid => probe.listed = <<>>
                /\ \A i \in 1..Len(probe.listed) : probe.listed[i] \notin StaleNames

C19_Witness ==
    /\ probe.age = cache_expiry_hours + 1
    /\ probe.op = "get_categories"
    /\ probe.kind = RASHODY
    /\ ~probe.valid
    /\ probe.listed = <<>>
    /\ probe.fetched

\* C20: the mapping written by save_categories is the mapping an immediate
\* load_categories returns: the same kinds, and for each kind the same names
\* in the same order with the same repetitions
C20_RoundTrip ==
    /\ (probe.op = "save_categories" /\ Age = 0) =>
            load_categories(cache, now) = probe.saved
    /\ (probe.op = "load_categories" /\ probe.age = 0) => probe.loaded = probe.saved

C20_Witness ==
    /\ probe.op = "load_categories"
    /\ probe.age = 0
    /\ RASHODY \in DOMAIN probe.loaded
    /\ probe.loaded[RASHODY] = << <<"Kofe">>, <<"\"", "Avto", "\\">> >>
    /\ probe.loaded = probe.saved

\* C14: a confirmed deletion makes exactly one clear call of the gateway, for
\* the row and the kind of the record selected, and ends the flow: the
\* user's session is empty and the position of the pair is removed
C14_ConfirmedDeletionEnds ==
    (event.handler = "handle_confirm_delete_transaction" /\ event.tag = "deleted") =>
        /\ probe.calls = << [op |-> "clear", ok |-> TRUE,
                             row |-> probe.selected.row,
                             kind |-> probe.selected.kind] >>
        /\ Session(event.user) = EmptyDict
        /\ state[<<event.user, event.chat>>] = None

\* the button text that stands for a record
ChoiceOf(record) ==
    <<"delete", "_", "trans", "_">> \o NatDigits(record.row) \o <<"_", record.kind>>

\* C15: the record buttons of the deletion list are those of the ten (or
\* fewer) listed records appended last, the most recent first, and each
\* carries the row and the kind of its record
C15_RecentChoices ==
    (event.handler = "handle_delete_transaction" /\ event.tag = "choose_transaction") =>
        /\ Len(probe.shown) <= RecentCount
        /\ Len(probe.offered) = Len(probe.shown) + 1
        /\ \A i \in 1..Len(probe.shown) : probe.offered[i] = ChoiceOf(probe.shown[i])

C15_Witness ==
    /\ event.handler = "handle_delete_transaction"
    /\ event.tag = "choose_transaction"
    /\ Len(SelectSeq(probe.appended, LAMBDA a : a.listed)) > RecentCount
    /\ Len(probe.shown) = RecentCount
    /\ probe.room < MaxDataRows
    /\ probe.offered[1] = ChoiceOf(probe.appended[Len(probe.appended)])
    /\ probe.offered[RecentCount] # ChoiceOf(probe.appended[1])

\* the file holds an entry that is not expired and has a list for the kind
ValidEntryFor(file, t, category_type) ==
    /\ is_cache_valid(file, t)
    /\ category_type \in DOMAIN load_categories(file, t)

\* C21: get_categories on a valid entry that holds the kind returns the
\* cached list, reads nothing remote and leaves the file as it is; otherwise
\* it reads both kinds, writes the file with the current time, and the list
\* it returns is the list the file now holds for the kind
C21_GetHitOrRefresh ==
    \A category_type \in Kinds, ok \in BOOLEAN, okE \in BOOLEAN, okI \in BOOLEAN :
        LET got == get_categories(cache, now, category_type, ok, okE, okI)
            stored == load_categories(got.file, now)
        IN  IF ValidEntryFor(cache, now, category_type)
            THEN /\ got.categories = load_categories(cache, now)[category_type]
                 /\ got.calls = <<>>
                 /\ got.file = cache
            ELSE /\ \A k \in Kinds : \E i \in 1..Len(got.calls) : got.calls[i].kind = k
                 /\ got.file.exists
                 /\ got.file.loaded.value.timestamp = isoformat(now)
                 /\ category_type \in DOMAIN stored
                 /\ got.categories = stored[category_type]

\* C22: a write of the cache by a refresh holds, for both kinds, lists that
\* successful remote reads gave, or the cache stays a miss: the file never
\* holds the list of one kind beside the empty list of a failed read of the
\* other
C22_RefreshAllOrNothing ==
    \A okE \in BOOLEAN, okI \in BOOLEAN :
        LET updated == load_categories(_update_cache_with_categories(now, okE, okI), now)
            refreshed == load_categories(refresh_categories_cache(cache, now, okE, okI).file, now)
        IN  /\ updated = EmptyDict \/ (okE /\ okI)
            /\ refreshed = EmptyDict \/ (okE /\ okI)

\* C23: a refresh in which a remote read fails reports failure with an error
\* description and leaves the cache cleared, so that the next get_categories
\* is a miss
C23_FailedRefreshLeavesCleared ==
    \A okE \in BOOLEAN, okI \in BOOLEAN :
        LET refreshed == refresh_categories_cache(cache, now, okE, okI) IN
        ~(okE /\ okI) =>
            /\ ~refreshed.result.success
            /\ "error" \in DOMAIN refreshed.result
            /\ ~refreshed.file.exists
            /\ \A category_type \in Kinds :
                   get_categories(refreshed.file, now, category_type, TRUE, TRUE, TRUE).calls # <<>>

\* the texts of a file that json.load cannot decode to a document
UndecodableTexts == PartialTexts \cup GarbageTexts

\* the file is as the last complete save wrote it
WrittenInFull ==
    /\ cache.exists
    /\ probe.written >= 0
    /\ cache.text = WrittenText(probe.saved, probe.written)

\* C24: get_cache_info returns a descriptor for a missing file, for a file
\* that cannot be decoded, for a document without timestamp and for a
\* document written in full; the descriptor of a file that cannot be decoded
\* differs from that of a missing file and from that of a well-formed one
C24_InfoAlwaysDescribes ==
    LET info == get_cache_info(cache, now) IN
    /\ "exists" \in DOMAIN info
    /\ probe.op = "get_cache_info" => probe.loaded = info
    /\ ~cache.exists => (~info.exists /\ "message" \in DOMAIN info)
    /\ WrittenInFull =>
           /\ info.exists
           /\ info.timestamp = isoformat(probe.written)
           /\ info.age_hours = now - probe.written
    /\ (cache.exists /\ cache.text \in UndecodableTexts) =>
           /\ info # get_cache_info(Missing, now)
           /\ "error" \in DOMAIN info
           /\ \A categories \in CategoryMappings :
                  info # get_cache_info(save_categories(categories, now), now)

C24_Witness ==
    /\ probe.op = "get_cache_info"
    /\ cache.exists
    /\ cache.text \in PartialTexts
    /\ Len(cache.text) > Len(isoformat(now))
    /\ probe.loaded = [exists |-> FALSE, error |-> "decode"]

\* C30: a reader that finds the cache file cut off at any point of a write,
\* or holding a text that cannot be decoded, takes it as a miss:
\* load_categories returns the empty mapping, is_cache_valid is false,
\* get_cache_info reports no cache, get_categories reads the remote and
\* returns what that read gave; none of them returns part of a mapping
C30_CutOffFileIsMiss ==
    (cache.exists /\ cache.text \in UndecodableTexts) =>
        /\ load_categories(cache, now) = EmptyDict
        /\ ~is_cache_valid(cache, now)
        /\ ~get_cache_info(cache, now).exists
        /\ \A category_type \in Kinds, ok \in BOOLEAN :
               LET got == get_categories(cache, now, category_type, ok, ok, ok) IN
               /\ got.calls # <<>>
               /\ got.categories = _fetch_categories_from_sheets(category_type, ok)
        /\ probe.op = "load_categories" => probe.loaded = EmptyDict
        /\ probe.op = "is_cache_valid" => ~probe.valid

C30_Witness ==
    /\ probe.op = "load_categories"
    /\ cache.exists
    /\ cache.text \in PartialTexts
    /\ cache.text # <<>>
    /\ cache.text[Len(cache.text)] = "]"
    /\ probe.loaded = EmptyDict

\* the records of a listing that stand for the block of a kind at a row
At(listing, row, kind) ==
    SelectSeq(listing, LAMBDA rec :
        rec.Stroka = row /\ LowerText(<<rec.Tip>>) = LowerText(kind))

\* C25: after an expense is appended to a ledger of any content (a ledger
\* view shorter than the data start offset included), the listing of
\* expenses holds exactly one record more than before the append; that record
\* carries the appended amount and the index of the row the append wrote.
C25_AppendThenList ==
    (probe.op = "add_transaction" /\ probe.kind = <<RASHODY>>
        /\ probe.category # Blank) =>
        LET listed == get_transactions_of(probe.before, <<RASHODY>>, TRUE)
            listing == get_transactions_of(sheet, <<RASHODY>>, TRUE)
            fresh == At(listing, probe.row, <<RASHODY>>)
        IN  /\ Len(listing) = Len(listed) + 1
            /\ Len(fresh) = 1
            /\ _parse_amount(fresh[1].Summa) = probe.amount
            /\ At(listed, probe.row, <<RASHODY>>) = <<>>

\* C26: a second delete_transaction(row, k) right after a first one succeeds
\* and leaves the ledger as the first call left it, and the listing then has
\* no record of kind k at that row.
C26_DeleteIdempotent ==
    (probe.op = "delete_transaction" /\ ~probe.raised) =>
        LET again == delete_transaction(sheet, probe.row, probe.kind, TRUE) IN
        /\ ~again.raised
        /\ again.sheet = sheet
        /\ (probe.times = 2 => sheet = probe.before)
        /\ At(get_transactions_of(sheet, <<VSE>>, TRUE), probe.row, probe.kind) = <<>>
        /\ At(get_transactions_of(again.sheet, probe.kind, TRUE),
              probe.row, probe.kind) = <<>>

\* the block of a record was cleared twice in a row
C26_Witness ==
    /\ probe.op = "delete_transaction"
    /\ ~probe.raised
    /\ probe.times = 2
    /\ probe.row >= DataStartRow
    /\ probe.kind = <<RASHODY>>
    /\ \E r \in DataStartRow..Len(sheet) : r # probe.row /\ RowUsed(sheet[r])

\* C27: delete_transaction(row, k) changes nothing but the four cells of kind
\* k at that row: the ledger keeps its rows, every other cell keeps its text,
\* and the listing after the call is the listing before it without the
\* record of kind k at that row.
C27_DeleteClearsOneBlock ==
    (probe.op = "delete_transaction" /\ ~probe.raised) =>
        LET first == BlockStart(LowerText(probe.kind)[1])
            listed == get_transactions_of(probe.before, <<VSE>>, TRUE)
            listing == get_transactions_of(sheet, <<VSE>>, TRUE)
        IN  /\ Len(sheet) = Len(probe.before)
            /\ \A r \in 1..Len(sheet), c \in 1..Columns :
                   sheet[r][c] # probe.before[r][c] =>
                       r = probe.row /\ c \in first..(first + 3)
            /\ listing = SelectSeq(listed, LAMBDA rec :
                              ~(rec.Stroka = probe.row
                                /\ LowerText(<<rec.Tip>>) = LowerText(probe.kind)))

\* an expense was cleared from a row that holds an income too, in a ledger
\* with a record at another row
C27_Witness ==
    /\ probe.op = "delete_transaction"
    /\ ~probe.raised
    /\ probe.times = 1
    /\ probe.kind = <<RASHODY>>
    /\ At(get_transactions_of(probe.before, <<VSE>>, TRUE), probe.row, <<RASHODY>>) # <<>>
    /\ At(get_transactions_of(sheet, <<VSE>>, TRUE), probe.row, <<DOHODY>>) # <<>>
    /\ Len(get_transactions_of(sheet, <<VSE>>, TRUE)) >= 2

\* the answers that tell the user of a failure
ErrorTags == {"error", "add_failed", "delete_error"}

\* the outcome leaves the user at the main menu or nowhere, with no session
Neutral(out, u, c) ==
    /\ out.state[<<u, c>>] \in {main_menu, None}
    /\ SessionIn(out.user_data, u) = EmptyDict

\* the outcome of an event whose remote call failed tells of an error and is
\* neutral
Reported(out, u, c) == out.reply.tag \in ErrorTags /\ Neutral(out, u, c)

\* C28: whenever the remote call of an event fails (the category fetch of
\* add, the append of confirm, the listing of delete and of a record
\* selection, the clear of a confirmed deletion), the user is told of an error
\* and is left at the main menu or without a position, with an empty session.
C28_GatewayFailureIsReported ==
    \A u \in ALLOWED_USER_IDS, c \in Chats :
        /\ \A data \in {add_expense, add_income} :
              LET out == handle_add_transaction(u, c, data, FALSE, FALSE, FALSE) IN
              out.calls # <<>> => Reported(out, u, c)
        /\ LET out == handle_confirmation(u, c, confirm_add, FALSE) IN
           out.calls # <<>> => Reported(out, u, c)
        /\ Reported(handle_delete_transaction(u, c, FALSE), u, c)
        /\ Reported(handle_delete_transaction_selection(u, c, SelectFirst, FALSE), u, c)
        /\ Reported(handle_confirm_delete_transaction(u, c, ConfirmFirst, FALSE), u, c)

Outsiders == Users \ ALLOWED_USER_IDS

\* the sessions, the positions, the cache file and the ledger are the same
\* before and after the step
StoresKept ==
    /\ \A u \in Users : SessionIn(user_data', u) = SessionIn(user_data, u)
    /\ state' = state
    /\ cache' = cache
    /\ sheet' = sheet

\* C29: no event sent by a user outside the allowlist (a command, a text or a
\* button press of any payload) changes a session, a position, the category
\* cache or the ledger.
C29_OutsidersChangeNothing ==
    [][(handled' # handled /\ event'.user \in Outsiders) => StoresKept]_vars

\* the session fields a position presupposes
FieldsAt(position) ==
    IF position = entering_amount THEN {"transaction_type", "category"}
    ELSE IF position = entering_description
    THEN {"transaction_type", "category", "amount"}
    ELSE IF position = confirming THEN SessionKeys
    ELSE {}

\* C37: in every reachable state, for every user and chat: at EnteringAmount
\* the user's session holds kind and category, at EnteringDescription also
\* the amount, at Confirming all five fields.
C37_PositionHasItsFields ==
    \A u \in Users, c \in Chats :
        HasKeys(Session(u), FieldsAt(state[<<u, c>>]))

\* sub occurs in s
Contains(s, sub) ==
    \E i \in 1..(Len(s) - Len(sub) + 1) : SubSeq(s, i, i + Len(sub) - 1) = sub

\* the amount as the confirmation is to show it: integer digits, a comma,
\* two fraction digits, a blank and the currency mark with its dot
MoneyText(x) ==
    LET h == x.m * Pow10(2 - x.k) IN
    NatDigits(h \div 100) \o <<",">> \o TwoDigits(h % 100) \o <<" ", "r", ".">>

\* C33: the confirmation text of a record shows its amount with two
\* decimals, a comma as decimal separator and the currency suffix ' r.' as it
\* is (150.50 as '150,50 r.'), and holds the emoji of the kind, the date, the
\* category and the description.
C33_ConfirmationText ==
    (/\ probe.op = "format_for_display"
     /\ IsFinitePositive(probe.args.amount)
     /\ probe.args.amount.k <= 2
     /\ probe.args.amount.m < 1000 * Pow10(probe.args.amount.k)) =>
        /\ Contains(probe.shown, MoneyText(probe.args.amount))
        /\ Contains(probe.shown,
                    <<IF Lower(probe.args.transaction_type) = RASHODY
                      THEN ExpenseEmoji ELSE IncomeEmoji>>)
        /\ Contains(probe.shown, probe.args.date)
        /\ Contains(probe.shown, probe.args.category)
        /\ Contains(probe.shown, probe.args.description)

\* C32: every payload the keyboards generate (category selectors, also of
\* names that hold the separator; delete selectors and delete confirmations
\* with row index and kind; confirm and cancel) reaches the handler meant for
\* it under the registration order, and that handler reads from it the kind,
\* the category or the row index and kind the button was built for.
C32_PayloadsRoundTrip ==
    probe.op = "press" =>
        LET intent == probe.intent IN
        CASE intent.button = "category" ->
                /\ probe.handler = "handle_category_selection"
                /\ event.tag = "enter_amount"
                /\ probe.category = intent.category
                /\ Split(probe.data, "_", 2)[2] = <<intent.kind>>
          [] intent.button = "select" ->
                /\ probe.handler = "handle_delete_transaction_selection"
                /\ event.tag = "confirm_delete"
                /\ probe.offered =
                       get_delete_confirmation_keyboard(intent.row, <<intent.kind>>)
          [] intent.button = "confirm_delete" ->
                /\ probe.handler = "handle_confirm_delete_transaction"
                /\ Len(probe.calls) = 1
                /\ probe.calls[1].op = "clear"
                /\ probe.calls[1].row = intent.row
                /\ probe.calls[1].kind = intent.kind
          [] intent.button = "confirm" ->
                /\ probe.handler = "handle_confirmation"
                /\ event.tag # "none"
          [] OTHER ->
                /\ probe.handler = "handle_cancellation"
                /\ event.tag = "cancelled"

\* the button of a category whose name holds the separator was pressed
C32_Witness ==
    /\ probe.op = "press"
    /\ probe.intent.button = "category"
    /\ probe.intent.category = <<"Eda", "_", "doma">>
    /\ Session(1)["category"] = <<"Eda", "_", "doma">>

\* C38: for every record button of the deletion list, the record shown in
\* the deletion confirmation has the row index and the kind of the button,
\* and the confirm button offered with it clears that row and kind; also when
\* the row holds an expense and an income.
C38_DeletionShowsSelected ==
    LET df == get_transactions_df(sheet, TRUE)
        keys == get_transactions_list_keyboard(df, "delete")
    IN  \A i \in 1..Len(keys) :
            Route(keys[i]) = "handle_delete_transaction_selection" =>
                LET chosen == df[Len(df) - i + 1]
                    out == handle_delete_transaction_selection(1, 1, keys[i], TRUE)
                    shown == DisplayedRecord(sheet, keys[i])
                    cleared == handle_confirm_delete_transaction(
                                   1, 1, out.reply.data[1], TRUE).calls
                IN  /\ out.reply.tag = "confirm_delete"
                    /\ shown.Stroka = chosen.Stroka
                    /\ shown.Tip = chosen.Tip
                    /\ Len(cleared) = 1
                    /\ cleared[1].row = shown.Stroka
                    /\ cleared[1].kind = Lower(shown.Tip)

\* C35: the gateway append is called only by a confirm press that arrives
\* while the position of the user in that chat is Confirming; a confirm
\* payload arriving at any other position causes no append.
C35_AppendOnlyWhenConfirming ==
    probe.appended # <<>> =>
        /\ event.handler = "handle_confirmation"
        /\ event.from = confirming

\* C36: the record appended on confirm is, field by field, a record shown in
\* a confirmation message of the chat the confirm was pressed in, whatever
\* happened between the showing and the press.
C36_AppendedIsShown ==
    probe.appended # <<>> =>
        probe.appended[1].record \in probe.shown[event.chat]

\* C31: a reader of the cache file finds the complete document the file held
\* before the writer began or the complete document the writer writes, also
\* when it reads while save_categories or refresh_categories_cache is at
\* work: never an empty file, a part of the text, or no file.
C31_ReaderSeesOldOrNew ==
    probe.seen # NotRead =>
        \/ probe.seen = probe.old
        \/ probe.seen = [exists |-> TRUE, text |-> probe.new]

\* C34: two presses of the confirm button by one user, also when they reach
\* the dispatcher at almost the same time, make at most one add_transaction
\* call.
C34_TwoPressesOneAppend == probe.calls <= 1

\* the records of appends made and not deleted
Kept == SelectSeq(probe.written, LAMBDA write : ~write.deleted)

\* C39: every append writes into a row whose block held no record, and the
\* listing holds one record for every append made and not deleted, also when
\* two appends are processed at the same time.
C39_AppendIntoFreeRow ==
    /\ \A i \in 1..Len(probe.written) :
        LET write == probe.written[i] IN
        At(get_transactions_of(write.before, <<VSE>>, TRUE),
           write.row, <<write.kind>>) = <<>>
    /\ Len(get_transactions_of(sheet, <<VSE>>, TRUE)) = Len(Kept)

============================================================================
